---- MODULE Spec2Model ----
(***************************************************************************)
(* Model of the AWS Bedrock plugin for Genkit Go (package bedrock).        *)
(*                                                                         *)
(* The areas of the plugin are modelled each with its own variables and    *)
(* its own specifications:                                                 *)
(*   SpecStream  - generateTextStream consuming a ConverseStream event     *)
(*                 stream, and convertResponse on the same model output;   *)
(*   SpecBuild   - buildConverseInput on a bounded set of requests;        *)
(*   SpecPlugin  - the plugin lifecycle: Init, DefineModel, DefineEmbedder *)
(*                 called from concurrent goroutines under b.mu;           *)
(*   FairSpecPlugin - the same under the scheduling of the goroutines;     *)
(*   SpecSchema, SpecCoerce, SpecImage, SpecEmbed - one call of            *)
(*                 normalizeSchema, convertValueWithSchema, generateImage  *)
(*                 and embed on an input drawn from a bounded set;         *)
(*   SpecPart    - buildConverseInput on one text or media part and        *)
(*                 convertResponse on the content block it became.         *)
(* Texts are sequences of characters, so that concatenation is \o.         *)
(***************************************************************************)
EXTENDS Integers, Sequences, FiniteSets, TLC

VARIABLES
    \* ---- generateTextStream ----
    output,        \* the model output the stream carries (has = FALSE: an arbitrary event sequence)
    events,        \* the events the stream delivers, in arrival order
    spc,           \* position in generateTextStream: "start", "loop", "returned" ("idle": not called)
    pos,           \* number of events taken from Events()
    streamState,   \* "none", "open", "closed": the stream of ConverseStream
    chanClosed,    \* the Events() channel was closed early by the SDK
    streamErr,     \* the stream ended on a transport error (stream.Err() != nil)
    ctxCancelled,  \* ctx was cancelled while events were consumed
    fullText,      \* strings.Builder fullText
    finalResponse, \* *ai.ModelResponse finalResponse (set = FALSE: nil)
    stopReason,    \* types.StopReason stopReason
    calls,         \* the chunks handed to cb, in call order
    result,        \* what generateTextStream returned
    \* ---- buildConverseInput ----
    req,           \* the *ai.ModelRequest
    converseInput, \* the *bedrockruntime.ConverseInput built from it
    bpc,           \* "ready", "built"
    \* ---- plugin lifecycle ----
    mu,            \* b.mu: the goroutine holding it, or NoProc
    initted,       \* b.initted
    client,        \* b.client: "nil" or "client"
    models,        \* names registered by genkit.DefineModel
    embedders,     \* names registered by genkit.DefineEmbedder
    ppc,           \* per goroutine: position in its current call
    op,            \* per goroutine: the call it is in
    todo,          \* per goroutine: registrations left in DefineCommonModels/Embedders
    outcome,       \* per goroutine: how its last call ended
    inits,         \* number of Init calls that returned nil
    cfg,           \* the plugin's configuration fields
    \* ---- one call of a function of the plugin ----
    args,          \* the arguments of the call
    ret,           \* what the call returned
    sent,          \* the InvokeModel requests sent to Bedrock so far, in order
    replies,       \* what InvokeModel returned for them, in order
    doc,           \* embed: number of documents of req.Input the loop is through with
    cpc            \* position in the call ("idle": not called)

streamVars == <<output, events, spc, pos, streamState, chanClosed, streamErr,
                ctxCancelled, fullText, finalResponse, stopReason, calls,
                result>>
buildVars  == <<req, converseInput, bpc>>
pluginVars == <<mu, initted, client, models, embedders, ppc, op, todo, outcome, inits,
                cfg>>
callVars   == <<args, ret, sent, replies, doc, cpc>>
vars       == <<streamVars, buildVars, pluginVars, callVars>>

----------------------------------------------------------------------------
\* Bounds of the model.
MaxEvents == 3      \* length of an arbitrary event sequence
MaxBlocks == 2      \* content blocks of a model output
NumProcs == 2       \* goroutines calling into one plugin instance

----------------------------------------------------------------------------
\* Texts.
EmptyText == << >>
DeltaTexts == { <<"a">>, <<"b", "c">>, EmptyText }
BlockTexts == { <<"a">>, <<"b", "c">> }

\* ai.NewTextPart
NewTextPart(t) == [kind |-> "text", text |-> t]

\* ai.NewToolRequestPart(&ai.ToolRequest{Name, Input, Ref})
NewToolRequestPart(name, input, ref) ==
    [kind |-> "toolRequest", name |-> name, input |-> input, ref |-> ref]

\* types.StopReason values the service sends, and one it does not know.
StopReasons == {"end_turn", "max_tokens", "stop_sequence", "tool_use",
                "content_filtered", "guardrail_intervened"}

\* convertStopReasonToGenkit
convertStopReasonToGenkit(sr) ==
    CASE sr = "end_turn"         -> "stop"
      [] sr = "max_tokens"       -> "length"
      [] sr = "stop_sequence"    -> "stop"
      [] sr = "tool_use"         -> "stop"
      [] sr = "content_filtered" -> "blocked"
      [] OTHER                   -> "other"

----------------------------------------------------------------------------
\* The Converse output of the model and the responses built from it.

\* *types.TokenUsage (set = FALSE: nil)
NoUsage == [set |-> FALSE, inputTokens |-> 0, outputTokens |-> 0, totalTokens |-> 0]
SomeUsage == [set |-> TRUE, inputTokens |-> 1, outputTokens |-> 2, totalTokens |-> 3]

\* types.ContentBlockMemberText / types.ContentBlockMemberToolUse
\* A document (document.Interface): nil, or a lazy document of a decoded value.
NilDocument == [doc |-> "nil", val |-> [t |-> "nil", v |-> 0]]
NewLazyDocument(value) == [doc |-> "value", val |-> value]
TextBlock(t) == [kind |-> "text", text |-> t, name |-> "", id |-> "", input |-> NilDocument]
ToolUseBlock(name, id, input) ==
    [kind |-> "toolUse", text |-> EmptyText, name |-> name, id |-> id, input |-> input]

\* toolUse.Input: nil, a document that does not unmarshal to a map, a map of arguments
WeatherArgs == [t |-> "map",
                v |-> [location |-> [t |-> "string", v |-> "Paris"],
                       days |-> [t |-> "Number", v |-> "1"]]]
ToolInputs == {NilDocument, NewLazyDocument([t |-> "string", v |-> "Paris"]),
               NewLazyDocument(WeatherArgs)}
ContentBlocks == { TextBlock(t) : t \in BlockTexts }
                 \cup { ToolUseBlock("getWeather", "tu1", i) : i \in ToolInputs }

\* The tools of the request the model output answers.
WeatherTool == [name |-> "getWeather", description |-> "weather at a place",
                hasSchema |-> TRUE,
                inputSchema |-> [type |-> "object",
                                 properties |-> [location |-> [type |-> "string"],
                                                 days |-> [type |-> "integer"]]]]
PlainTool == [name |-> "now", description |-> "the time", hasSchema |-> FALSE,
              inputSchema |-> [nil |-> TRUE]]

SeqsUpTo(S, n) == UNION { [1..k -> S] : k \in 0..n }

NoOutput == [has |-> FALSE, content |-> << >>, stopReason |-> "", usage |-> NoUsage]
ModelOutputs ==
    { [has |-> TRUE, content |-> c, stopReason |-> sr, usage |-> u] :
        c \in SeqsUpTo(ContentBlocks, MaxBlocks), sr \in StopReasons,
        u \in {NoUsage, SomeUsage} }

\* *ai.ModelResponse (set = FALSE: nil)
NoResponse == [set |-> FALSE, role |-> "", content |-> << >>, finishReason |-> "",
               usage |-> NoUsage]
ModelResponse(content, finishReason, usage) ==
    [set |-> TRUE, role |-> "model", content |-> content,
     finishReason |-> finishReason, usage |-> usage]

\* Decoded values: a tag for the Go type and the value. A float64 is kept in
\* tenths (2.5 is 25), which holds every number of the model that fits an
\* int64 exactly; a float64 that no int64 holds (NaN, +Inf, 1e19) is kept by
\* its class.
StrV(x)    == [t |-> "string", v |-> x]
NumberV(x) == [t |-> "Number", v |-> x]      \* smithydoc.Number, a string type
IntV(n)    == [t |-> "int", v |-> n]
Int64V(n)  == [t |-> "int64", v |-> n]
Float64V(tenths) == [t |-> "float64", v |-> tenths]
BoolV(b)   == [t |-> "bool", v |-> b]
ArrV(xs)   == [t |-> "array", v |-> xs]      \* []interface{}
MapV(f)    == [t |-> "map", v |-> f]         \* map[string]interface{}

Float64Class(class) == [t |-> "float64", v |-> 0, class |-> class]

\* strconv.ParseFloat(x, 64) on the strings of the model: ok (err == nil) and
\* the float64. "1e400" is out of the range of float64 (ErrRange); NaN and Inf
\* are accepted.
ParseFloat(x) ==
    CASE x = "42"    -> [ok |-> TRUE, f |-> Float64V(420)]
      [] x = "1"     -> [ok |-> TRUE, f |-> Float64V(10)]
      [] x = "2.5"   -> [ok |-> TRUE, f |-> Float64V(25)]
      [] x = "-2.5"  -> [ok |-> TRUE, f |-> Float64V(-25)]
      [] x = "1e19"  -> [ok |-> TRUE, f |-> Float64Class("1e19")]
      [] x = "NaN"   -> [ok |-> TRUE, f |-> Float64Class("NaN")]
      [] x = "Inf"   -> [ok |-> TRUE, f |-> Float64Class("+Inf")]
      [] OTHER       -> [ok |-> FALSE, f |-> Float64V(0)]

\* strconv.ParseBool
ParseBool(x) ==
    CASE x \in {"1", "t", "T", "TRUE", "true", "True"}      -> [ok |-> TRUE, v |-> TRUE]
      [] x \in {"0", "f", "F", "FALSE", "false", "False"}   -> [ok |-> TRUE, v |-> FALSE]
      [] OTHER                                              -> [ok |-> FALSE, v |-> FALSE]

\* strconv.ParseInt(x, 10, 64), as Number.Int64 uses it.
ParseInt(x) ==
    CASE x = "42" -> [ok |-> TRUE, v |-> 42]
      [] x = "1"  -> [ok |-> TRUE, v |-> 1]
      [] OTHER    -> [ok |-> FALSE, v |-> 0]

\* int64(f) for a float64 in tenths: truncation toward zero.
TruncTenths(tenths) == IF tenths >= 0 THEN tenths \div 10 ELSE -((-tenths) \div 10)

\* int64(f) for a float64 f: the truncation when an int64 holds it; for the
\* other floats Go leaves the result to the implementation, and it is kept as
\* "the int64 this build makes of a float of that class" until the build is
\* known (OnBuild).
Int64From(class) == [t |-> "int64", v |-> 0, from |-> class]
Int64OfFloat64(f) ==
    IF "class" \in DOMAIN f THEN Int64From(f.class) ELSE Int64V(TruncTenths(f.v))

\* An int64 at a limit of its range.
Int64Limit(limit) == [t |-> "int64", v |-> 0, limit |-> limit]

\* A value with the implementation-dependent conversions as the build for
\* GOARCH makes them: amd64 gives the smallest int64 for every float without
\* int64; arm64 saturates and gives 0 for NaN.
Builds == {"amd64", "arm64"}

RECURSIVE OnBuild(_, _)
OnBuild(goarch, value) ==
    CASE value.t = "int64" /\ "from" \in DOMAIN value ->
            IF goarch = "amd64" THEN Int64Limit("MinInt64")
            ELSE IF value.from = "NaN" THEN Int64V(0)
            ELSE Int64Limit("MaxInt64")
      [] value.t = "array" -> ArrV([i \in DOMAIN value.v |-> OnBuild(goarch, value.v[i])])
      [] value.t = "map" -> MapV([k \in DOMAIN value.v |-> OnBuild(goarch, value.v[k])])
      [] OTHER -> value

\* convertMapWithSchema and convertValueWithSchema. A schema is a function from
\* its keys; type, when present, is a string, properties a map of schemas and
\* items a schema. NoSchema is the nil schema.
NoSchema == [nil |-> TRUE]

RECURSIVE convertMapWithSchema(_, _)
RECURSIVE convertValueWithSchema(_, _)

\* A property schema that is not a map[string]any (a boolean schema, say).
NotAMap == [notMap |-> TRUE]

\* convertMapWithSchema with a result built from the declared properties as
\* well: a property the input lacks is filled in with nil.
convertMapWithSchemaMaterialized(inputMap, schema) ==
    IF schema = NoSchema THEN MapV(inputMap)
    ELSE IF /\ "type" \in DOMAIN schema
            /\ schema.type = "object"
            /\ "properties" \in DOMAIN schema
         THEN MapV([key \in DOMAIN inputMap \cup DOMAIN schema.properties |->
                     IF key \notin DOMAIN inputMap THEN [t |-> "nil", v |-> 0]
                     ELSE IF key \notin DOMAIN schema.properties
                             \/ schema.properties[key] = NotAMap
                     THEN inputMap[key]
                     ELSE convertValueWithSchema(inputMap[key], schema.properties[key])])
         ELSE MapV(inputMap)

convertMapWithSchema(inputMap, schema) ==
    IF schema = NoSchema THEN MapV(inputMap)
    ELSE IF /\ "type" \in DOMAIN schema
            /\ schema.type = "object"
            /\ "properties" \in DOMAIN schema
         THEN MapV([key \in DOMAIN inputMap |->
                     IF key \in DOMAIN schema.properties
                     THEN IF schema.properties[key] = NotAMap
                          THEN inputMap[key]
                          ELSE convertValueWithSchema(inputMap[key], schema.properties[key])
                     ELSE inputMap[key]])
         ELSE MapV(inputMap)

\* convertArray keeping only the elements the conversion changed.
RECURSIVE convertArrayConvertedOnly(_, _)
convertArrayConvertedOnly(arrayValue, items) ==
    IF arrayValue = << >> THEN ArrV(<< >>)
    ELSE LET item == convertValueWithSchema(Head(arrayValue), items)
             rest == convertArrayConvertedOnly(Tail(arrayValue), items).v
         IN ArrV(IF item = Head(arrayValue) THEN rest ELSE <<item>> \o rest)

\* The array branch: a new slice of the same length, each item converted with
\* the items schema.
convertArray(arrayValue, items) ==
    ArrV([i \in 1..Len(arrayValue) |-> convertValueWithSchema(arrayValue[i], items)])

convertValueWithSchema(value, schema) ==
    IF schema = NoSchema \/ "type" \notin DOMAIN schema THEN value
    ELSE LET schemaType == schema.type
         IN CASE value.t = "Number" /\ schemaType = "number" /\ ParseFloat(value.v).ok ->
                    ParseFloat(value.v).f
              [] value.t = "Number" /\ schemaType = "integer" /\ ParseInt(value.v).ok ->
                    Int64V(ParseInt(value.v).v)
              [] value.t = "string" /\ schemaType \in {"number", "integer"}
                    /\ ParseFloat(value.v).ok ->
                    IF schemaType = "integer"
                    THEN Int64OfFloat64(ParseFloat(value.v).f)
                    ELSE ParseFloat(value.v).f
              [] value.t = "string" /\ schemaType = "boolean" /\ ParseBool(value.v).ok ->
                    BoolV(ParseBool(value.v).v)
              [] schemaType = "number" /\ value.t \in {"int", "int32", "int64"} ->
                    Float64V(value.v * 10)
              [] schemaType = "number" /\ value.t \in {"float32", "float64"} ->
                    [value EXCEPT !.t = "float64"]
              [] schemaType = "integer" /\ value.t \in {"int", "int32", "int64"} ->
                    Int64V(value.v)
              [] schemaType = "integer" /\ value.t \in {"float32", "float64"} ->
                    Int64OfFloat64(value)
              [] schemaType = "array" /\ "items" \in DOMAIN schema /\ value.t = "array" ->
                    convertArray(value.v, schema.items)
              [] schemaType = "object" /\ value.t = "map" ->
                    convertMapWithSchema(value.v, schema)
              [] OTHER -> value

\* convertToolInputTypes: the tool definition is looked up by exact name (the
\* first of that name); without one, or with a nil InputSchema, the decoded map
\* is returned as it is.
convertToolInputTypes(inputMap, toolName, tools) ==
    LET named == { i \in 1..Len(tools) : tools[i].name = toolName }
    IN IF named = {} THEN MapV(inputMap)
       ELSE LET targetTool == tools[CHOOSE i \in named : \A j \in named : i <= j]
            IN IF ~targetTool.hasSchema THEN MapV(inputMap)
               ELSE convertMapWithSchema(inputMap, targetTool.inputSchema)

\* The input of a tool-use block as the input of the tool request: an empty map
\* for a nil document, a map naming the error and the tool-use id for a document
\* that does not unmarshal to a map, the converted map otherwise.
ToolInputOf(block, tools) ==
    CASE block.input.doc = "nil" -> MapV(<< >>)
      [] block.input.val.t # "map" ->
            MapV([_unmarshal_error |-> StrV("unmarshal failed"),
                  _tool_use_id |-> StrV(block.id)])
      [] OTHER -> convertToolInputTypes(block.input.val.v, block.name, tools)

\* One content block of a Converse output as a part of the response: a text
\* block and a tool-use block have one, a block of another kind has none.
BlockToParts(block, tools) ==
    CASE block.kind = "text" -> <<NewTextPart(block.text)>>
      [] block.kind = "toolUse" ->
            <<NewToolRequestPart(block.name, ToolInputOf(block, tools), block.id)>>
      [] OTHER -> << >>

RECURSIVE BlocksToParts(_, _)
BlocksToParts(blocks, tools) ==
    IF blocks = << >> THEN << >>
    ELSE BlockToParts(Head(blocks), tools) \o BlocksToParts(Tail(blocks), tools)

\* convertResponse
convertResponse(response, tools) ==
    LET parts == BlocksToParts(response.content, tools)
        content == IF Len(parts) = 0 THEN <<NewTextPart(EmptyText)>> ELSE parts
        usage == IF response.usage.set THEN response.usage ELSE NoUsage
    IN ModelResponse(content, convertStopReasonToGenkit(response.stopReason), usage)

----------------------------------------------------------------------------
\* The ConverseStream event stream.

Event(type, delta, text, sr) ==
    [type |-> type, delta |-> delta, text |-> text, stopReason |-> sr]
TextDeltaEvent(t)  == Event("contentBlockDelta", "text", t, "")
ToolDeltaEvent     == Event("contentBlockDelta", "toolUse", EmptyText, "")
BlockStartEvent    == Event("contentBlockStart", "", EmptyText, "")
BlockStopEvent     == Event("contentBlockStop", "", EmptyText, "")
MessageStartEvent  == Event("messageStart", "", EmptyText, "")
MessageStopEvent(sr) == Event("messageStop", "", EmptyText, sr)
MetadataEvent      == Event("metadata", "", EmptyText, "")

\* The events an arbitrary stream is made of.
EventKinds == { TextDeltaEvent(t) : t \in DeltaTexts }
              \cup { ToolDeltaEvent, MetadataEvent }
              \cup { MessageStopEvent(sr) : sr \in {"end_turn", "max_tokens"} }

\* The events of one content block: a text block arrives one character per delta.
BlockEvents(block) ==
    IF block.kind = "text"
    THEN [i \in 1..Len(block.text) |-> TextDeltaEvent(<<block.text[i]>>)]
         \o <<BlockStopEvent>>
    ELSE <<BlockStartEvent, ToolDeltaEvent, BlockStopEvent>>

RECURSIVE ContentEvents(_)
ContentEvents(content) ==
    IF content = << >> THEN << >>
    ELSE BlockEvents(Head(content)) \o ContentEvents(Tail(content))

\* The event sequence by which the service streams a model output.
EventsOf(o) ==
    <<MessageStartEvent>> \o ContentEvents(o.content)
        \o <<MessageStopEvent(o.stopReason), MetadataEvent>>

IsTextDelta(e) == e.type = "contentBlockDelta" /\ e.delta = "text"

----------------------------------------------------------------------------
\* generateTextStream

\* &ai.ModelResponseChunk{Index: 0, Content: []*ai.Part{ai.NewTextPart(text)}}
Chunk(text) == [index |-> 0, content |-> <<NewTextPart(text)>>]

NotReturned == [done |-> FALSE, ok |-> FALSE, resp |-> NoResponse, err |-> ""]
ReturnOk(resp) == [done |-> TRUE, ok |-> TRUE, resp |-> resp, err |-> ""]
ReturnErr(err) == [done |-> TRUE, ok |-> FALSE, resp |-> NoResponse, err |-> err]

StreamInit ==
    /\ \/ /\ output = NoOutput
          /\ events \in SeqsUpTo(EventKinds, MaxEvents)
       \/ /\ output \in ModelOutputs
          /\ events = EventsOf(output)
    /\ spc = "start"
    /\ pos = 0
    /\ streamState = "none"
    /\ chanClosed = FALSE
    /\ streamErr = FALSE
    /\ ctxCancelled = FALSE
    /\ fullText = EmptyText
    /\ finalResponse = NoResponse
    /\ stopReason = ""
    /\ calls = << >>
    /\ result = NotReturned

StreamIdle ==
    /\ output = NoOutput
    /\ events = << >>
    /\ spc = "idle"
    /\ pos = 0
    /\ streamState = "none"
    /\ chanClosed = FALSE
    /\ streamErr = FALSE
    /\ ctxCancelled = FALSE
    /\ fullText = EmptyText
    /\ finalResponse = NoResponse
    /\ stopReason = ""
    /\ calls = << >>
    /\ result = NotReturned

HasEvent == spc = "loop" /\ ~chanClosed /\ pos < Len(events)
NextEvent == events[pos + 1]

\* b.client.ConverseStream succeeds: the stream is acquired, its Close is deferred.
ConverseStreamOk ==
    /\ spc = "start"
    /\ spc' = "loop"
    /\ streamState' = "open"
    /\ UNCHANGED <<output, events, pos, chanClosed, streamErr, ctxCancelled, fullText,
                   finalResponse, stopReason, calls, result>>
    /\ UNCHANGED <<buildVars, pluginVars, callVars>>

\* b.client.ConverseStream fails: no stream was acquired.
ConverseStreamFails ==
    /\ spc = "start"
    /\ spc' = "returned"
    /\ result' = ReturnErr("bedrock converse stream failed")
    /\ UNCHANGED <<output, events, pos, streamState, chanClosed, streamErr, ctxCancelled,
                   fullText, finalResponse, stopReason, calls>>
    /\ UNCHANGED <<buildVars, pluginVars, callVars>>

\* OnTextDelta with the callback given the whole text so far instead of the delta.
OnTextDeltaBatched ==
    /\ HasEvent
    /\ IsTextDelta(NextEvent)
    /\ fullText' = fullText \o NextEvent.text
    /\ calls' = Append(calls, Chunk(fullText'))
    /\ pos' = pos + 1
    /\ UNCHANGED <<output, events, spc, streamState, chanClosed, streamErr, ctxCancelled,
                   finalResponse, stopReason, result>>
    /\ UNCHANGED <<buildVars, pluginVars, callVars>>

\* A text delta, and cb returns nil.
OnTextDelta ==
    /\ HasEvent
    /\ IsTextDelta(NextEvent)
    /\ fullText' = fullText \o NextEvent.text
    /\ calls' = Append(calls, Chunk(NextEvent.text))
    /\ pos' = pos + 1
    /\ UNCHANGED <<output, events, spc, streamState, chanClosed, streamErr, ctxCancelled,
                   finalResponse, stopReason, result>>
    /\ UNCHANGED <<buildVars, pluginVars, callVars>>

\* OnTextDeltaCallbackError returning the text so far beside the error.
OnTextDeltaCallbackErrorPartial ==
    /\ HasEvent
    /\ IsTextDelta(NextEvent)
    /\ fullText' = fullText \o NextEvent.text
    /\ calls' = Append(calls, Chunk(NextEvent.text))
    /\ pos' = pos + 1
    /\ result' = [done |-> TRUE, ok |-> FALSE, err |-> "callback error",
                  resp |-> ModelResponse(<<NewTextPart(fullText')>>, "stop", NoUsage)]
    /\ streamState' = "closed"
    /\ spc' = "returned"
    /\ UNCHANGED <<output, events, chanClosed, streamErr, ctxCancelled, finalResponse,
                   stopReason>>
    /\ UNCHANGED <<buildVars, pluginVars, callVars>>

\* OnTextDeltaCallbackError with Close called at the end of the function only,
\* not deferred.
OnTextDeltaCallbackErrorNoClose ==
    /\ HasEvent
    /\ IsTextDelta(NextEvent)
    /\ fullText' = fullText \o NextEvent.text
    /\ calls' = Append(calls, Chunk(NextEvent.text))
    /\ pos' = pos + 1
    /\ result' = ReturnErr("callback error")
    /\ spc' = "returned"
    /\ UNCHANGED <<output, events, streamState, chanClosed, streamErr, ctxCancelled,
                   finalResponse, stopReason>>
    /\ UNCHANGED <<buildVars, pluginVars, callVars>>

\* A text delta, and cb returns an error: return nil and the wrapped error; the
\* deferred Close runs.
OnTextDeltaCallbackError ==
    /\ HasEvent
    /\ IsTextDelta(NextEvent)
    /\ fullText' = fullText \o NextEvent.text
    /\ calls' = Append(calls, Chunk(NextEvent.text))
    /\ pos' = pos + 1
    /\ result' = ReturnErr("callback error")
    /\ streamState' = "closed"
    /\ spc' = "returned"
    /\ UNCHANGED <<output, events, chanClosed, streamErr, ctxCancelled, finalResponse,
                   stopReason>>
    /\ UNCHANGED <<buildVars, pluginVars, callVars>>

\* A message-stop event: the stop reason is recorded and the final response is
\* prepared from the text so far; the loop goes on.
OnMessageStop ==
    /\ HasEvent
    /\ NextEvent.type = "messageStop"
    /\ stopReason' = NextEvent.stopReason
    /\ finalResponse' = ModelResponse(<<NewTextPart(fullText)>>,
                                      convertStopReasonToGenkit(NextEvent.stopReason),
                                      NoUsage)
    /\ pos' = pos + 1
    /\ UNCHANGED <<output, events, spc, streamState, chanClosed, streamErr, ctxCancelled,
                   fullText, calls, result>>
    /\ UNCHANGED <<buildVars, pluginVars, callVars>>

\* Any other event (a delta that is not text, block start and stop, message start,
\* metadata) matches no case of the switch.
OnOtherEvent ==
    /\ HasEvent
    /\ ~IsTextDelta(NextEvent)
    /\ NextEvent.type # "messageStop"
    /\ pos' = pos + 1
    /\ UNCHANGED <<output, events, spc, streamState, chanClosed, streamErr, ctxCancelled,
                   fullText, finalResponse, stopReason, calls, result>>
    /\ UNCHANGED <<buildVars, pluginVars, callVars>>

\* ReturnFinalResponse with the missing final response given the mapping of the
\* (unset) stop reason instead of ai.FinishReasonStop.
ReturnFinalResponseMapsUnset ==
    /\ spc = "loop"
    /\ chanClosed \/ pos = Len(events)
    /\ finalResponse' = IF finalResponse.set THEN finalResponse
                        ELSE ModelResponse(<<NewTextPart(fullText)>>,
                                           convertStopReasonToGenkit(stopReason), NoUsage)
    /\ result' = ReturnOk(finalResponse')
    /\ streamState' = "closed"
    /\ spc' = "returned"
    /\ UNCHANGED <<output, events, pos, chanClosed, streamErr, ctxCancelled, fullText,
                   stopReason, calls>>
    /\ UNCHANGED <<buildVars, pluginVars, callVars>>

\* The Events() channel is closed (all events taken, or closed early): the loop
\* ends, a missing final response is built from the text so far with finish
\* reason stop, and it is returned with a nil error; the deferred Close runs.
ReturnFinalResponse ==
    /\ spc = "loop"
    /\ chanClosed \/ pos = Len(events)
    /\ finalResponse' = IF finalResponse.set THEN finalResponse
                        ELSE ModelResponse(<<NewTextPart(fullText)>>, "stop", NoUsage)
    /\ result' = ReturnOk(finalResponse')
    /\ streamState' = "closed"
    /\ spc' = "returned"
    /\ UNCHANGED <<output, events, pos, chanClosed, streamErr, ctxCancelled, fullText,
                   stopReason, calls>>
    /\ UNCHANGED <<buildVars, pluginVars, callVars>>

\* The transport fails while events are consumed: the SDK records the error for
\* Err() and closes the Events() channel.
TransportError ==
    /\ spc = "loop"
    /\ ~chanClosed
    /\ streamErr' = TRUE
    /\ chanClosed' = TRUE
    /\ UNCHANGED <<output, events, spc, pos, streamState, ctxCancelled, fullText,
                   finalResponse, stopReason, calls, result>>
    /\ UNCHANGED <<buildVars, pluginVars, callVars>>

\* ctx is cancelled while events are still to come: the SDK may close the
\* Events() channel at once or deliver what it has.
CancelContext ==
    /\ HasEvent
    /\ ~ctxCancelled
    /\ ctxCancelled' = TRUE
    /\ \E closeNow \in BOOLEAN : chanClosed' = closeNow
    /\ UNCHANGED <<output, events, spc, pos, streamState, streamErr, fullText,
                   finalResponse, stopReason, calls, result>>
    /\ UNCHANGED <<buildVars, pluginVars, callVars>>

NextStream ==
    \/ ConverseStreamOk
    \/ ConverseStreamFails
    \/ OnTextDelta
    \/ OnTextDeltaCallbackError
    \/ OnMessageStop
    \/ OnOtherEvent
    \/ ReturnFinalResponse
    \/ TransportError
    \/ CancelContext


----------------------------------------------------------------------------
\* buildConverseInput

\* The parts of a message besides text and tool-request parts.
\* A media part: ContentType and, in Text, the payload; the payload is kept as
\* its comma-separated segments, so that strings.Split(content, ",") is segs.
MediaPart(contentType, segs) == [kind |-> "media", contentType |-> contentType, text |-> segs]
\* A part of kind tool request whose ToolRequest is nil.
NilToolRequestPart == [kind |-> "toolRequest", nilRequest |-> TRUE]
ToolResponsePart(ref, out) == [kind |-> "toolResponse", ref |-> ref, output |-> out]
NilToolResponsePart == [kind |-> "toolResponse", nilResponse |-> TRUE]
\* A part of any other kind (data, custom, reasoning, ...).
DataPart == [kind |-> "data"]

\* Segments of a media payload: "data:<mime>;base64", or a run of characters
\* without comma or colon that base64.StdEncoding decodes (valid) or rejects.
HeaderSeg(mime) == [seg |-> "header", mime |-> mime]
B64Seg(tok, valid) == [seg |-> "b64", tok |-> tok, valid |-> valid]

\* strings.HasPrefix(content, "data:")
HasDataPrefix(segs) == segs[1].seg = "header"

\* The MIME type of the part: its ContentType, or, when that is empty and the
\* payload is a data URL of two comma-separated pieces, the one in the header.
MediaTypeOf(part) ==
    LET segs == part.text
    IN IF HasDataPrefix(segs) /\ Len(segs) = 2 /\ part.contentType = ""
       THEN segs[1].mime
       ELSE part.contentType

\* The string handed to base64: the second piece of a two-piece data URL, else
\* the whole payload.
MediaContentOf(part) ==
    LET segs == part.text
    IN IF HasDataPrefix(segs) /\ Len(segs) = 2 THEN <<segs[2]>> ELSE segs

\* ImageFormatOf without the case for image/jpg.
ImageFormatOfNoJpg(mediaType) ==
    CASE mediaType = "image/png"  -> "png"
      [] mediaType = "image/jpeg" -> "jpeg"
      [] mediaType = "image/gif"  -> "gif"
      [] mediaType = "image/webp" -> "webp"
      [] OTHER                    -> "png"

\* types.ImageFormat for a MIME type.
ImageFormatOf(mediaType) ==
    CASE mediaType = "image/png"  -> "png"
      [] mediaType = "image/jpeg" -> "jpeg"
      [] mediaType = "image/jpg"  -> "jpeg"
      [] mediaType = "image/gif"  -> "gif"
      [] mediaType = "image/webp" -> "webp"
      [] OTHER                    -> "png"

\* base64.StdEncoding.DecodeString(content), with the fallback []byte(content).
ImageDataOf(content) ==
    IF Len(content) = 1 /\ content[1].seg = "b64" /\ content[1].valid
    THEN [raw |-> FALSE, of |-> <<content[1].tok>>]
    ELSE [raw |-> TRUE, of |-> content]

ImageBlock(format, bytes) == [kind |-> "image", format |-> format, bytes |-> bytes]

\* The text of a tool response's output: a string as it is, another value as
\* its JSON, and fmt's %v when json.Marshal fails.
OutputTextOf(out) ==
    CASE out.t = "string"  -> out.v
      [] out.t = "value"   -> <<"json:", out.v>>
      [] OTHER             -> <<"%v:", out.v>>

ToolResultBlock(ref, content) ==
    [kind |-> "toolResult", toolUseId |-> ref, content |-> content, status |-> "success"]

\* strings.TrimSpace on a text of the model.
RECURSIVE TrimSpace(_)
TrimSpace(t) ==
    IF t = << >> THEN t
    ELSE IF Head(t) = " " THEN TrimSpace(Tail(t))
    ELSE IF t[Len(t)] = " " THEN TrimSpace(SubSeq(t, 1, Len(t) - 1))
    ELSE t

\* PartToBlocks with the text of a text part trimmed.
PartToBlocksTrimmed(part) ==
    CASE part.kind = "text"  -> <<TextBlock(TrimSpace(part.text))>>
      [] part.kind = "media" ->
            <<ImageBlock(ImageFormatOf(MediaTypeOf(part)), ImageDataOf(MediaContentOf(part)))>>
      [] OTHER -> << >>

\* The content blocks one part of a user, model or tool message maps to: one
\* block, or none.
PartToBlocks(part) ==
    CASE part.kind = "text"  -> <<TextBlock(part.text)>>
      [] part.kind = "media" ->
            <<ImageBlock(ImageFormatOf(MediaTypeOf(part)), ImageDataOf(MediaContentOf(part)))>>
      [] part.kind = "toolRequest" ->
            IF "nilRequest" \in DOMAIN part THEN << >>
            ELSE <<ToolUseBlock(part.name, part.ref, NewLazyDocument(part.input))>>
      [] part.kind = "toolResponse" ->
            IF "nilResponse" \in DOMAIN part THEN << >>
            ELSE <<ToolResultBlock(part.ref,
                        IF part.output.t = "nil" THEN << >>
                        ELSE <<OutputTextOf(part.output)>>)>>
      [] OTHER -> << >>

RECURSIVE ContentToBlocks(_)
ContentToBlocks(content) ==
    IF content = << >> THEN << >>
    ELSE PartToBlocks(Head(content)) \o ContentToBlocks(Tail(content))

\* types.Message
WireMessage(role, blocks) == [role |-> role, content |-> blocks]

\* MessagesToWire without the test len(contentBlocks) > 0.
RECURSIVE MessagesToWireAll(_)
MessagesToWireAll(msgs) ==
    IF msgs = << >> THEN << >>
    ELSE LET msg == Head(msgs)
             blocks == ContentToBlocks(msg.content)
             bedrockRole == IF msg.role = "model" THEN "assistant" ELSE "user"
         IN (IF msg.role # "system"
             THEN <<WireMessage(bedrockRole, blocks)>> ELSE << >>)
            \o MessagesToWireAll(Tail(msgs))

\* The wire messages of the non-system messages, in order; a message with no
\* content block is not emitted.
RECURSIVE MessagesToWire(_)
MessagesToWire(msgs) ==
    IF msgs = << >> THEN << >>
    ELSE LET msg == Head(msgs)
             blocks == ContentToBlocks(msg.content)
             bedrockRole == IF msg.role = "model" THEN "assistant" ELSE "user"
         IN (IF msg.role # "system" /\ Len(blocks) > 0
             THEN <<WireMessage(bedrockRole, blocks)>> ELSE << >>)
            \o MessagesToWire(Tail(msgs))

\* The system prompts: the text parts of the system messages, in order.
RECURSIVE SystemPrompts(_)
SystemPrompts(msgs) ==
    IF msgs = << >> THEN << >>
    ELSE LET msg == Head(msgs)
             idx == { i \in 1..Len(msg.content) : msg.content[i].kind = "text" }
         IN (IF msg.role = "system"
             THEN [k \in 1..Cardinality(idx) |->
                     msg.content[CHOOSE i \in idx :
                        Cardinality({j \in idx : j <= i}) = k].text]
             ELSE << >>)
            \o SystemPrompts(Tail(msgs))

\* TrailingTurn with the test for tools left out: the trailing assistant message
\* is never removed.
TrailingTurnKept(messages, tools) == messages

\* With tools, a last wire message of role assistant is removed.
TrailingTurn(messages, tools) ==
    IF Len(tools) > 0 /\ Len(messages) > 0 /\ messages[Len(messages)].role = "assistant"
    THEN SubSeq(messages, 1, Len(messages) - 1)
    ELSE messages

\* validateAndNormalizeJSONSchema without the defaulting of properties.
validateAndNormalizeJSONSchemaNoProperties(schema) ==
    LET withType == IF "type" \in DOMAIN schema THEN schema
                    ELSE schema @@ [type |-> "object"]
    IN IF "$schema" \in DOMAIN withType THEN withType
       ELSE withType @@ ("$schema" :> "http://json-schema.org/draft-07/schema#")

\* validateAndNormalizeJSONSchema with the test for type "object" made before
\* the defaulting of type.
validateAndNormalizeJSONSchemaReordered(schema) ==
    LET withProps == IF "type" \in DOMAIN schema
                     THEN IF schema.type = "object" /\ "properties" \notin DOMAIN schema
                          THEN schema @@ [properties |-> << >>]
                          ELSE schema
                     ELSE schema
        withType == IF "type" \in DOMAIN withProps THEN withProps
                    ELSE withProps @@ [type |-> "object"]
    IN IF "$schema" \in DOMAIN withType THEN withType
       ELSE withType @@ ("$schema" :> "http://json-schema.org/draft-07/schema#")

\* validateAndNormalizeJSONSchema: a copy of the schema with type, properties
\* (for type object) and $schema filled in when absent.
validateAndNormalizeJSONSchema(schema) ==
    LET withType == IF "type" \in DOMAIN schema THEN schema
                    ELSE schema @@ [type |-> "object"]
        withProps == IF withType.type = "object" /\ "properties" \notin DOMAIN withType
                     THEN withType @@ [properties |-> << >>]
                     ELSE withType
    IN IF "$schema" \in DOMAIN withProps THEN withProps
       ELSE withProps @@ ("$schema" :> "http://json-schema.org/draft-07/schema#")

\* The schema argument of normalizeSchema, an `any`: nil, a map, a string or
\* bytes holding JSON text, or a value of another type with what json.Marshal
\* makes of it.
NilSchemaArg == [kind |-> "nil"]
MapSchema(f) == [kind |-> "map", map |-> f]
StringSchema(text) == [kind |-> "string", text |-> text]
BytesSchema(text) == [kind |-> "bytes", text |-> text]
OtherSchema(ok, text) == [kind |-> "other", ok |-> ok, text |-> text]

\* JSON text: an object with its members, null, another JSON value, or text
\* that is not JSON.
JsonObject(f) == [json |-> "object", map |-> f]
JsonNull == [json |-> "null", map |-> << >>]
JsonArray == [json |-> "array", map |-> << >>]
JsonInvalid == [json |-> "invalid", map |-> << >>]

\* json.Unmarshal(text, &schemaMap) into a nil map[string]interface{}: an object
\* gives its members, null leaves the map nil, anything else is an error.
Unmarshal(text) ==
    CASE text.json = "object" -> [err |-> FALSE, map |-> text.map]
      [] text.json = "null"   -> [err |-> FALSE, map |-> << >>]
      [] OTHER                -> [err |-> TRUE, map |-> << >>]

\* normalizeSchema: the normalized map, or an error.
normalizeSchema(schema) ==
    LET decoded ==
            CASE schema.kind = "map" -> [err |-> FALSE, map |-> schema.map]
              [] schema.kind \in {"string", "bytes"} -> Unmarshal(schema.text)
              [] OTHER -> IF schema.ok THEN Unmarshal(schema.text)
                          ELSE [err |-> TRUE, map |-> << >>]
    IN IF decoded.err THEN [err |-> TRUE, map |-> << >>]
       ELSE [err |-> FALSE, map |-> validateAndNormalizeJSONSchema(decoded.map)]

\* convertJSONSchemaToBedrockSchema: the JSON member of types.ToolInputSchema
\* holding the normalized schema, or nil and an error.
convertJSONSchemaToBedrockSchema(schema) ==
    IF schema.kind = "nil" THEN [err |-> TRUE, set |-> FALSE, json |-> << >>]
    ELSE LET schemaMap == normalizeSchema(schema)
         IN IF schemaMap.err THEN [err |-> TRUE, set |-> FALSE, json |-> << >>]
            ELSE [err |-> FALSE, set |-> TRUE, json |-> schemaMap.map]

\* tool.InputSchema as the `any` handed on: an ai.ToolDefinition's InputSchema
\* is a map[string]any, nil or not.
InputSchemaOf(tool) == IF tool.hasSchema THEN MapSchema(tool.inputSchema) ELSE NilSchemaArg

\* The tool specification of one tool: name and description, and the input
\* schema when the tool has one and its conversion succeeds.
ToolSpec(tool) ==
    [name |-> tool.name, description |-> tool.description,
     inputSchema |->
        IF InputSchemaOf(tool).kind # "nil"
           /\ ~convertJSONSchemaToBedrockSchema(InputSchemaOf(tool)).err
           /\ convertJSONSchemaToBedrockSchema(InputSchemaOf(tool)).set
        THEN [set |-> TRUE, json |-> convertJSONSchemaToBedrockSchema(InputSchemaOf(tool)).json]
        ELSE [set |-> FALSE, json |-> << >>]]

\* ToolSpecs skipping the tools that end without an input schema.
RECURSIVE ToolSpecsWithSchemaOnly(_)
ToolSpecsWithSchemaOnly(tools) ==
    IF tools = << >> THEN << >>
    ELSE (IF ToolSpec(Head(tools)).inputSchema.set THEN <<ToolSpec(Head(tools))>> ELSE << >>)
         \o ToolSpecsWithSchemaOnly(Tail(tools))

\* The tool list of the request: one specification per tool, in order.
ToolSpecs(tools) == [i \in 1..Len(tools) |-> ToolSpec(tools[i])]

\* buildConverseInput (the inference configuration is left out)
buildConverseInput(modelName, input) ==
    [modelId |-> modelName,
     messages |-> TrailingTurn(MessagesToWire(input.messages), input.tools),
     system |-> SystemPrompts(input.messages),
     toolConfig |-> ToolSpecs(input.tools)]

\* The requests of the model.
MaxMsgs == 3

Roles == {"system", "user", "model", "tool"}

SomeOutput == [t |-> "string", v |-> <<"s", "u", "n">>]
PngDataURL == <<HeaderSeg("image/png"), B64Seg("QUJD", TRUE)>>

Contents ==
    { << >>,
      <<NewTextPart(<<"a">>)>>,
      <<DataPart>>,
      <<NewTextPart(<<"b", "c">>), MediaPart("", PngDataURL)>>,
      <<NewToolRequestPart("getWeather", WeatherArgs, "tu1"), NilToolRequestPart>>,
      <<ToolResponsePart("tu1", SomeOutput)>> }

Messages == { [role |-> r, content |-> c] : r \in Roles, c \in Contents }

ToolLists == { << >>, <<PlainTool, WeatherTool>> }

ModelName == "anthropic.claude-3-haiku-20240307-v1:0"

NoConverseInput == [modelId |-> "", messages |-> << >>, system |-> << >>,
                    toolConfig |-> << >>]

BuildInit ==
    /\ \E m \in SeqsUpTo(Messages, MaxMsgs), t \in ToolLists :
            req = [messages |-> m, tools |-> t]
    /\ converseInput = NoConverseInput
    /\ bpc = "ready"

\* generateText calls buildConverseInput on the request.
BuildConverseInput ==
    /\ bpc = "ready"
    /\ converseInput' = buildConverseInput(ModelName, req)
    /\ bpc' = "built"
    /\ UNCHANGED req
    /\ UNCHANGED <<streamVars, pluginVars, callVars>>

NextBuild == BuildConverseInput

----------------------------------------------------------------------------
\* The plugin lifecycle: Init, DefineModel, DefineEmbedder on one *Bedrock.

Procs == 1..NumProcs
NoProc == 0

\* The models and embedders DefineCommonModels and DefineCommonEmbedders define.
ModelReg(name, type) == [reg |-> "model", name |-> name, type |-> type]
EmbedderReg(name) == [reg |-> "embedder", name |-> name, type |-> "embedding"]

CommonModels ==
    << ModelReg("anthropic.claude-3-haiku-20240307-v1:0", "chat"),
       ModelReg("anthropic.claude-3-5-sonnet-20241022-v2:0", "chat"),
       ModelReg("anthropic.claude-opus-4-20250514-v1:0", "chat"),
       ModelReg("anthropic.claude-sonnet-4-20250514-v1:0", "chat"),
       ModelReg("anthropic.claude-3-7-sonnet-20250219-v1:0", "chat"),
       ModelReg("amazon.nova-micro-v1:0", "chat"),
       ModelReg("amazon.nova-lite-v1:0", "chat"),
       ModelReg("amazon.nova-pro-v1:0", "chat"),
       ModelReg("amazon.titan-text-premier-v1:0", "chat"),
       ModelReg("meta.llama3-8b-instruct-v1:0", "chat"),
       ModelReg("meta.llama3-1-8b-instruct-v1:0", "chat"),
       ModelReg("meta.llama3-2-3b-instruct-v1:0", "chat"),
       ModelReg("meta.llama4-maverick-17b-instruct-v1:0", "chat"),
       ModelReg("meta.llama4-scout-17b-instruct-v1:0", "chat"),
       ModelReg("deepseek.r1-v1:0", "chat"),
       ModelReg("amazon.titan-image-generator-v1", "image"),
       ModelReg("amazon.nova-canvas-v1:0", "image") >>

CommonEmbedders ==
    << EmbedderReg("amazon.titan-embed-text-v1"),
       EmbedderReg("amazon.titan-embed-text-v2:0"),
       EmbedderReg("amazon.titan-embed-image-v1"),
       EmbedderReg("cohere.embed-english-v3"),
       EmbedderReg("cohere.embed-multilingual-v3") >>

\* What the callers define themselves.
UserRegs == { ModelReg("custom.chat-v1", "chat"), ModelReg("custom.image-v1", "image"),
              EmbedderReg("custom.embed-v1") }

NoCall == [call |-> "none", reg |-> "", name |-> "", type |-> ""]
InitCall == [call |-> "Init", reg |-> "", name |-> "", type |-> ""]
DefineCall(r) == [call |-> "Define", reg |-> r.reg, name |-> r.name, type |-> r.type]

\* The callable genkit.DefineModel / genkit.DefineEmbedder registers for a name:
\* generateImage for type image, generateText otherwise, embed for an embedder.
Callable(r) ==
    [name |-> r.name,
     fn |-> IF r.reg = "embedder" THEN "embed"
            ELSE IF r.type = "image" THEN "generateImage" ELSE "generateText"]

PluginInit ==
    /\ mu = NoProc
    /\ initted = FALSE
    /\ client = "nil"
    /\ models = {}
    /\ embedders = {}
    /\ ppc = [p \in Procs |-> "idle"]
    /\ op = [p \in Procs |-> NoCall]
    /\ todo = [p \in Procs |-> << >>]
    /\ outcome = [p \in Procs |-> "none"]
    /\ inits = 0
    /\ cfg \in [awsConfigSet : BOOLEAN, defineCommonModels : BOOLEAN,
                defineCommonEmbedders : BOOLEAN]

\* A goroutine calls b.Init and reaches b.mu.Lock().
CallInit(p) ==
    /\ ppc[p] = "idle"
    /\ ppc' = [ppc EXCEPT ![p] = "init_lock"]
    /\ op' = [op EXCEPT ![p] = InitCall]
    /\ UNCHANGED <<mu, initted, client, models, embedders, todo, outcome, inits, cfg>>
    /\ UNCHANGED <<streamVars, buildVars, callVars>>

\* InitLock without the mutual exclusion of b.mu.
InitLockUnguarded(p) ==
    /\ ppc[p] = "init_lock"
    /\ mu' = p
    /\ ppc' = [ppc EXCEPT ![p] = "init_locked"]
    /\ UNCHANGED <<initted, client, models, embedders, op, todo, outcome, inits, cfg>>
    /\ UNCHANGED <<streamVars, buildVars, callVars>>

\* b.mu.Lock() in Init returns.
InitLock(p) ==
    /\ ppc[p] = "init_lock"
    /\ mu = NoProc
    /\ mu' = p
    /\ ppc' = [ppc EXCEPT ![p] = "init_locked"]
    /\ UNCHANGED <<initted, client, models, embedders, op, todo, outcome, inits, cfg>>
    /\ UNCHANGED <<streamVars, buildVars, callVars>>

\* Init finds b.initted set: it unlocks and returns "Init already called".
InitAlreadyCalled(p) ==
    /\ ppc[p] = "init_locked"
    /\ initted
    /\ mu' = NoProc
    /\ ppc' = [ppc EXCEPT ![p] = "idle"]
    /\ op' = [op EXCEPT ![p] = NoCall]
    /\ outcome' = [outcome EXCEPT ![p] = "bedrock: Init already called"]
    /\ UNCHANGED <<initted, client, models, embedders, todo, inits, cfg>>
    /\ UNCHANGED <<streamVars, buildVars, callVars>>

\* Init finds b.initted unset and goes on, under b.mu, to the defaults and the
\* AWS configuration.
InitNotYetCalled(p) ==
    /\ ppc[p] = "init_locked"
    /\ ~initted
    /\ ppc' = [ppc EXCEPT ![p] = "init_config"]
    /\ UNCHANGED <<mu, initted, client, models, embedders, op, todo, outcome, inits, cfg>>
    /\ UNCHANGED <<streamVars, buildVars, callVars>>

\* b.AWSConfig is nil and config.LoadDefaultConfig fails: Init returns the
\* error; this return does not unlock b.mu.
InitLoadConfigFails(p) ==
    /\ ppc[p] = "init_config"
    /\ ~cfg.awsConfigSet
    /\ ppc' = [ppc EXCEPT ![p] = "idle"]
    /\ op' = [op EXCEPT ![p] = NoCall]
    /\ outcome' = [outcome EXCEPT ![p] = "bedrock: failed to load AWS config"]
    /\ UNCHANGED <<mu, initted, client, models, embedders, todo, inits, cfg>>
    /\ UNCHANGED <<streamVars, buildVars, callVars>>

\* The AWS configuration is there: the client is created, b.initted is set and
\* b.mu is unlocked; the common models and embedders are still to be defined.
InitSetsClient(p) ==
    /\ ppc[p] = "init_config"
    /\ client' = "client"
    /\ initted' = TRUE
    /\ mu' = NoProc
    /\ todo' = [todo EXCEPT ![p] =
                    (IF cfg.defineCommonModels THEN CommonModels ELSE << >>)
                    \o (IF cfg.defineCommonEmbedders THEN CommonEmbedders ELSE << >>)]
    /\ ppc' = [ppc EXCEPT ![p] = "init_common"]
    /\ UNCHANGED <<models, embedders, op, outcome, inits, cfg>>
    /\ UNCHANGED <<streamVars, buildVars, callVars>>

\* DefineModel / DefineEmbedder under b.mu, from the lock to the deferred unlock:
\* the registries after it, for a plugin that is initialized.
ModelsAfterDefine(r) == IF r.reg = "model" THEN models \cup {Callable(r)} ELSE models
EmbeddersAfterDefine(r) == IF r.reg = "embedder" THEN embedders \cup {Callable(r)} ELSE embedders

\* Init, in DefineCommonModels / DefineCommonEmbedders, defines the next common
\* model or embedder: b.DefineModel / b.DefineEmbedder takes b.mu for the call.
InitDefineCommon(p) ==
    /\ ppc[p] = "init_common"
    /\ todo[p] # << >>
    /\ mu = NoProc
    /\ IF initted
       THEN /\ models' = ModelsAfterDefine(Head(todo[p]))
            /\ embedders' = EmbeddersAfterDefine(Head(todo[p]))
            /\ todo' = [todo EXCEPT ![p] = Tail(todo[p])]
            /\ UNCHANGED <<ppc, op, outcome>>
       ELSE /\ ppc' = [ppc EXCEPT ![p] = "idle"]
            /\ op' = [op EXCEPT ![p] = NoCall]
            /\ todo' = [todo EXCEPT ![p] = << >>]
            /\ outcome' = [outcome EXCEPT ![p] = "panic: bedrock: Init not called"]
            /\ UNCHANGED <<models, embedders>>
    /\ UNCHANGED <<mu, initted, client, inits, cfg>>
    /\ UNCHANGED <<streamVars, buildVars, callVars>>

\* Init returns nil.
InitReturns(p) ==
    /\ ppc[p] = "init_common"
    /\ todo[p] = << >>
    /\ ppc' = [ppc EXCEPT ![p] = "idle"]
    /\ op' = [op EXCEPT ![p] = NoCall]
    /\ outcome' = [outcome EXCEPT ![p] = "nil"]
    /\ inits' = inits + 1
    /\ UNCHANGED <<mu, initted, client, models, embedders, todo, cfg>>
    /\ UNCHANGED <<streamVars, buildVars, callVars>>

\* A goroutine calls b.DefineModel or b.DefineEmbedder and reaches b.mu.Lock().
CallDefine(p, r) ==
    /\ ppc[p] = "idle"
    /\ ppc' = [ppc EXCEPT ![p] = "define_lock"]
    /\ op' = [op EXCEPT ![p] = DefineCall(r)]
    /\ UNCHANGED <<mu, initted, client, models, embedders, todo, outcome, inits, cfg>>
    /\ UNCHANGED <<streamVars, buildVars, callVars>>

\* DefineRegisters without the test of b.initted.
DefineRegistersUnchecked(p) ==
    /\ ppc[p] = "define_lock"
    /\ mu = NoProc
    /\ models' = ModelsAfterDefine(op[p])
    /\ embedders' = EmbeddersAfterDefine(op[p])
    /\ ppc' = [ppc EXCEPT ![p] = "idle"]
    /\ op' = [op EXCEPT ![p] = NoCall]
    /\ outcome' = [outcome EXCEPT ![p] = "registered"]
    /\ UNCHANGED <<mu, initted, client, todo, inits, cfg>>
    /\ UNCHANGED <<streamVars, buildVars, callVars>>

\* The call takes b.mu, finds b.initted set, registers the callable and returns
\* it; the deferred unlock runs.
DefineRegisters(p) ==
    /\ ppc[p] = "define_lock"
    /\ mu = NoProc
    /\ initted
    /\ models' = ModelsAfterDefine(op[p])
    /\ embedders' = EmbeddersAfterDefine(op[p])
    /\ ppc' = [ppc EXCEPT ![p] = "idle"]
    /\ op' = [op EXCEPT ![p] = NoCall]
    /\ outcome' = [outcome EXCEPT ![p] = "registered"]
    /\ UNCHANGED <<mu, initted, client, todo, inits, cfg>>
    /\ UNCHANGED <<streamVars, buildVars, callVars>>

\* The call takes b.mu, finds b.initted unset and panics; the deferred unlock
\* runs (the caller recovers and goes on).
DefinePanics(p) ==
    /\ ppc[p] = "define_lock"
    /\ mu = NoProc
    /\ ~initted
    /\ ppc' = [ppc EXCEPT ![p] = "idle"]
    /\ op' = [op EXCEPT ![p] = NoCall]
    /\ outcome' = [outcome EXCEPT ![p] = "panic: bedrock: Init not called"]
    /\ UNCHANGED <<mu, initted, client, models, embedders, todo, inits, cfg>>
    /\ UNCHANGED <<streamVars, buildVars, callVars>>

NextPlugin ==
    \E p \in Procs :
        \/ CallInit(p)
        \/ InitLock(p)
        \/ InitAlreadyCalled(p)
        \/ InitNotYetCalled(p)
        \/ InitLoadConfigFails(p)
        \/ InitSetsClient(p)
        \/ InitDefineCommon(p)
        \/ InitReturns(p)
        \/ \E r \in UserRegs : CallDefine(p, r)
        \/ DefineRegisters(p)
        \/ DefinePanics(p)

----------------------------------------------------------------------------
\* generateImage and embed: the InvokeModel adapters.

MaxImages == 2      \* images, artifacts or embeddings in one InvokeModel response

\* The model names of the calls, and strings.Contains(modelName, marker) for
\* the markers generateImage and embed test.
ModelNames ==
    { "amazon.titan-image-generator-v1", "stability.stable-diffusion-xl-v1",
      "stability.sd3-large-v1:0", "stability.stable-image-core-v1:0",
      "amazon.nova-canvas-v1:0", "custom.image-v1",
      "amazon.titan-embed-text-v2:0", "cohere.embed-english-v3", "custom.embed-v1" }

Markers(modelName) ==
    CASE modelName = "amazon.titan-image-generator-v1"  -> {"titan-image", "titan"}
      [] modelName = "stability.stable-diffusion-xl-v1" -> {"stable-diffusion"}
      [] modelName = "stability.sd3-large-v1:0"         -> {"sd3-"}
      [] modelName = "stability.stable-image-core-v1:0" -> {"stable-image"}
      [] modelName = "amazon.nova-canvas-v1:0"          -> {"nova-canvas"}
      [] modelName = "amazon.titan-embed-text-v2:0"     -> {"titan"}
      [] modelName = "cohere.embed-english-v3"          -> {"cohere"}
      [] OTHER                                          -> {}

Contains(modelName, marker) == marker \in Markers(modelName)

\* A text as a JSON value, and a value json.Marshal rejects (a channel).
TextV(t) == [t |-> "text", v |-> t]
ChanV == [t |-> "chan", v |-> 0]

\* json.Marshal succeeds on the value.
RECURSIVE Marshals(_)
Marshals(value) ==
    CASE value.t = "chan" -> FALSE
      [] value.t \in {"map", "array"} -> \A k \in DOMAIN value.v : Marshals(value.v[k])
      [] OTHER -> TRUE

\* input.Config: nil, a map[string]interface{}, or a value of another type.
NilConfig == [kind |-> "nil", map |-> << >>]
MapConfig(f) == [kind |-> "map", map |-> f]
StructConfig == [kind |-> "struct", map |-> << >>]

\* &bedrockruntime.InvokeModelInput
InvokeModelInput(modelName, body) ==
    [modelId |-> modelName, body |-> body, contentType |-> "application/json",
     accept |-> "application/json"]

\* What InvokeModel returns: an error, or a response whose Body is text that
\* is not a JSON object of the expected shape, or an object with its images,
\* artifacts, embedding and embeddings members (absent: empty).
InvokeError == [err |-> TRUE, parses |-> FALSE, images |-> << >>, artifacts |-> << >>,
                embedding |-> << >>, embeddings |-> << >>]
BadBody == [err |-> FALSE, parses |-> FALSE, images |-> << >>, artifacts |-> << >>,
            embedding |-> << >>, embeddings |-> << >>]
Body(images, artifacts, embedding, embeddings) ==
    [err |-> FALSE, parses |-> TRUE, images |-> images, artifacts |-> artifacts,
     embedding |-> embedding, embeddings |-> embeddings]

\* The prompt of generateImage: the text of the first part of the first
\* message when that part is a text part, else "".
PromptOf(input) ==
    IF Len(input.messages) > 0
    THEN IF Len(input.messages[1].content) > 0
         THEN IF input.messages[1].content[1].kind = "text"
              THEN input.messages[1].content[1].text
              ELSE EmptyText
         ELSE EmptyText
    ELSE EmptyText

\* The image family generateImage's switch selects for a model name.
ImageFamily(modelName) ==
    CASE Contains(modelName, "titan-image") -> "titan"
      [] Contains(modelName, "stable-diffusion") \/ Contains(modelName, "sd3-")
            \/ Contains(modelName, "stable-image") -> "stable-diffusion"
      [] Contains(modelName, "nova-canvas") -> "nova-canvas"
      [] OTHER -> "unsupported"

\* imageGenerationConfig of the Titan and Nova Canvas bodies: the defaults with
\* the entries of config["imageGenerationConfig"] on top, when config is a map
\* and that entry is a map.
ImageGenerationConfig(defaults, config) ==
    IF config.kind = "map"
    THEN IF "imageGenerationConfig" \in DOMAIN config.map
         THEN IF config.map["imageGenerationConfig"].t = "map"
              THEN config.map["imageGenerationConfig"].v @@ defaults
              ELSE defaults
         ELSE defaults
    ELSE defaults

TitanImageBody(prompt, config) ==
    [taskType |-> StrV("TEXT_IMAGE"),
     textToImageParams |-> MapV([text |-> TextV(prompt)]),
     imageGenerationConfig |->
        MapV(ImageGenerationConfig(
                [numberOfImages |-> IntV(1), height |-> IntV(1024), width |-> IntV(1024),
                 cfgScale |-> Float64V(80), seed |-> IntV(0)], config))]

NovaCanvasBody(prompt, config) ==
    [taskType |-> StrV("TEXT_IMAGE"),
     textToImageParams |-> MapV([text |-> TextV(prompt)]),
     imageGenerationConfig |->
        MapV(ImageGenerationConfig(
                [numberOfImages |-> IntV(1), quality |-> StrV("standard"),
                 height |-> IntV(1024), width |-> IntV(1024),
                 cfgScale |-> Float64V(80), seed |-> IntV(0)], config))]

\* The Stable Diffusion body: the defaults with the entries of a map config on
\* top.
StableDiffusionBody(prompt, config) ==
    (IF config.kind = "map" THEN config.map ELSE << >>)
    @@ [text_prompts |-> ArrV(<<MapV([text |-> TextV(prompt), weight |-> Float64V(10)])>>),
        cfg_scale |-> IntV(7), clip_guidance_preset |-> StrV("FAST_BLUE"),
        height |-> IntV(512), width |-> IntV(512), samples |-> IntV(1),
        steps |-> IntV(30)]

\* The request body the adapter of the model's family builds.
ImageBody(modelName, prompt, config) ==
    CASE ImageFamily(modelName) = "titan" -> TitanImageBody(prompt, config)
      [] ImageFamily(modelName) = "stable-diffusion" -> StableDiffusionBody(prompt, config)
      [] OTHER -> NovaCanvasBody(prompt, config)


\* The response of an image adapter: one media part, the PNG data URL of the
\* image.
ImageResponse(image) ==
    ModelResponse(<<MediaPart("image/png", <<HeaderSeg("image/png"), image>>)>>,
                  "stop", NoUsage)

\* generateTitanImage from the return of InvokeModel on.
TitanImageResult(reply) ==
    IF reply.err THEN ReturnErr("failed to invoke model")
    ELSE IF ~reply.parses THEN ReturnErr("failed to unmarshal response")
    ELSE IF Len(reply.images) = 0 THEN ReturnErr("no images generated")
    ELSE ReturnOk(ImageResponse(reply.images[1]))

\* StableDiffusionResult without the test for an empty artifact list: the
\* response is built from the artifacts there are.
StableDiffusionResultUnchecked(reply) ==
    IF reply.err THEN ReturnErr("failed to invoke model")
    ELSE IF ~reply.parses THEN ReturnErr("failed to unmarshal response")
    ELSE ReturnOk(ModelResponse(
            [i \in 1..Len(reply.artifacts) |->
                MediaPart("image/png", <<HeaderSeg("image/png"), reply.artifacts[i].base64>>)],
            "stop", NoUsage))

\* generateStableDiffusionImage from the return of InvokeModel on.
StableDiffusionResult(reply) ==
    IF reply.err THEN ReturnErr("failed to invoke model")
    ELSE IF ~reply.parses THEN ReturnErr("failed to unmarshal response")
    ELSE IF Len(reply.artifacts) = 0 THEN ReturnErr("no images generated")
    ELSE ReturnOk(ImageResponse(reply.artifacts[1].base64))

\* generateNovaCanvasImage from the return of InvokeModel on.
NovaCanvasResult(reply) ==
    IF reply.err THEN ReturnErr("failed to invoke model")
    ELSE IF ~reply.parses THEN ReturnErr("failed to unmarshal response")
    ELSE IF Len(reply.images) = 0 THEN ReturnErr("no images generated")
    ELSE ReturnOk(ImageResponse(reply.images[1]))

\* The calls of generateImage.
ImageTokens == { B64Seg("QUJD", TRUE), B64Seg("REVG", TRUE) }
Artifacts == { [base64 |-> B64Seg("QUJD", TRUE), finishReason |-> "SUCCESS"],
               [base64 |-> B64Seg("REVG", TRUE), finishReason |-> "CONTENT_FILTERED"] }

ImageReplies ==
    {InvokeError, BadBody}
    \cup { Body(i, a, << >>, << >>) :
            i \in SeqsUpTo(ImageTokens, MaxImages), a \in SeqsUpTo(Artifacts, MaxImages) }

ImageConfigs ==
    { NilConfig, StructConfig,
      MapConfig([imageGenerationConfig |-> MapV([width |-> IntV(512),
                                                 quality |-> StrV("premium")])]),
      MapConfig([imageGenerationConfig |-> StrV("large")]),
      MapConfig([width |-> IntV(768), style_preset |-> StrV("anime")]),
      MapConfig([imageGenerationConfig |-> MapV([seed |-> ChanV])]) }

ImageMessages ==
    { << >>,
      <<[role |-> "user", content |-> << >>]>>,
      <<[role |-> "user", content |-> <<NewTextPart(<<"a">>)>>]>>,
      <<[role |-> "user", content |-> <<MediaPart("", PngDataURL), NewTextPart(<<"a">>)>>]>>,
      <<[role |-> "system", content |-> <<NewTextPart(<<"b", "c">>)>>],
        [role |-> "user", content |-> <<NewTextPart(<<"a">>)>>]>> }

ImageModelNames ==
    { "amazon.titan-image-generator-v1", "stability.stable-diffusion-xl-v1",
      "stability.sd3-large-v1:0", "stability.stable-image-core-v1:0",
      "amazon.nova-canvas-v1:0", "custom.image-v1", "amazon.titan-embed-text-v2:0" }

ImageInit ==
    /\ args \in [modelName : ImageModelNames, messages : ImageMessages,
                 config : ImageConfigs]
    /\ ret = NotReturned
    /\ sent = << >>
    /\ replies = << >>
    /\ doc = 0
    /\ cpc = "called"

\* generateImage finds no text prompt.
GenerateImageNoPrompt ==
    /\ cpc = "called"
    /\ PromptOf(args) = EmptyText
    /\ ret' = ReturnErr("no text prompt found for image generation")
    /\ cpc' = "returned"
    /\ UNCHANGED <<args, sent, replies, doc>>
    /\ UNCHANGED <<streamVars, buildVars, pluginVars>>

\* The model name is of no image family the switch knows.
GenerateImageUnsupported ==
    /\ cpc = "called"
    /\ PromptOf(args) # EmptyText
    /\ ImageFamily(args.modelName) = "unsupported"
    /\ ret' = ReturnErr("unsupported image generation model")
    /\ cpc' = "returned"
    /\ UNCHANGED <<args, sent, replies, doc>>
    /\ UNCHANGED <<streamVars, buildVars, pluginVars>>

\* The adapter of the family builds its body and json.Marshal fails on it.
ImageMarshalFails ==
    /\ cpc = "called"
    /\ PromptOf(args) # EmptyText
    /\ ImageFamily(args.modelName) # "unsupported"
    /\ ~Marshals(MapV(ImageBody(args.modelName, PromptOf(args), args.config)))
    /\ ret' = ReturnErr("failed to marshal request")
    /\ cpc' = "returned"
    /\ UNCHANGED <<args, sent, replies, doc>>
    /\ UNCHANGED <<streamVars, buildVars, pluginVars>>

\* The adapter sends the body with InvokeModel; Bedrock answers.
ImageInvokeModel ==
    /\ cpc = "called"
    /\ PromptOf(args) # EmptyText
    /\ ImageFamily(args.modelName) # "unsupported"
    /\ Marshals(MapV(ImageBody(args.modelName, PromptOf(args), args.config)))
    /\ sent' = Append(sent, InvokeModelInput(args.modelName,
                        ImageBody(args.modelName, PromptOf(args), args.config)))
    /\ \E reply \in ImageReplies : replies' = Append(replies, reply)
    /\ cpc' = "invoked"
    /\ UNCHANGED <<args, ret, doc>>
    /\ UNCHANGED <<streamVars, buildVars, pluginVars>>

\* The adapter handles what InvokeModel returned and generateImage returns it.
ImageReturns ==
    /\ cpc = "invoked"
    /\ ret' = CASE ImageFamily(args.modelName) = "titan" ->
                        TitanImageResult(replies[Len(replies)])
                [] ImageFamily(args.modelName) = "stable-diffusion" ->
                        StableDiffusionResult(replies[Len(replies)])
                [] OTHER -> NovaCanvasResult(replies[Len(replies)])
    /\ cpc' = "returned"
    /\ UNCHANGED <<args, sent, replies, doc>>
    /\ UNCHANGED <<streamVars, buildVars, pluginVars>>

NextImage ==
    \/ GenerateImageNoPrompt
    \/ GenerateImageUnsupported
    \/ ImageMarshalFails
    \/ ImageInvokeModel
    \/ ImageReturns

\* embed

MaxDocs == 2        \* documents of one embed request

\* What embed returns, and its local `embeddings` while it runs.
EmbedPending(embeddings) == [done |-> FALSE, ok |-> FALSE, embeddings |-> embeddings, err |-> ""]
EmbedOk(embeddings) == [done |-> TRUE, ok |-> TRUE, embeddings |-> embeddings, err |-> ""]
EmbedErr(err) == [done |-> TRUE, ok |-> FALSE, embeddings |-> << >>, err |-> err]

\* inputText of a document: its text parts, concatenated.
RECURSIVE InputText(_)
InputText(content) ==
    IF content = << >> THEN EmptyText
    ELSE (IF Head(content).kind = "text" THEN Head(content).text ELSE EmptyText)
         \o InputText(Tail(content))

\* The embedding family embed's switch selects for a model name.
EmbedFamily(modelName) ==
    CASE Contains(modelName, "titan") -> "titan"
      [] Contains(modelName, "cohere") -> "cohere"
      [] OTHER -> "unsupported"

TitanEmbedBody(text) == [inputText |-> TextV(text)]
CohereEmbedBody(text) ==
    [texts |-> ArrV(<<TextV(text)>>), input_type |-> StrV("search_document")]

\* getTitanEmbedding and getCohereEmbedding from the return of InvokeModel on:
\* the vector, or an error.
getTitanEmbedding(reply) ==
    IF reply.err THEN [err |-> "failed to invoke model", embedding |-> << >>]
    ELSE IF ~reply.parses THEN [err |-> "failed to unmarshal response", embedding |-> << >>]
    ELSE [err |-> "", embedding |-> reply.embedding]

getCohereEmbedding(reply) ==
    IF reply.err THEN [err |-> "failed to invoke model", embedding |-> << >>]
    ELSE IF ~reply.parses THEN [err |-> "failed to unmarshal response", embedding |-> << >>]
    ELSE IF Len(reply.embeddings) = 0
         THEN [err |-> "no embeddings returned", embedding |-> << >>]
         ELSE [err |-> "", embedding |-> reply.embeddings[1]]

\* The calls of embed.  A vector is a list of float32 (in tenths).
Vectors == { << >>, <<1, 2>> }

EmbedReplies(modelName) ==
    {InvokeError, BadBody}
    \cup (IF EmbedFamily(modelName) = "titan"
          THEN { Body(<< >>, << >>, v, << >>) : v \in Vectors }
          ELSE { Body(<< >>, << >>, << >>, es) : es \in SeqsUpTo(Vectors, MaxImages) })

Documents ==
    { [content |-> << >>],
      [content |-> <<NewTextPart(<<"a">>)>>],
      [content |-> <<NewTextPart(EmptyText), DataPart>>],
      [content |-> <<NewTextPart(<<"b", "c">>), MediaPart("", PngDataURL),
                     NewTextPart(<<"a">>)>>] }

EmbedModelNames ==
    { "amazon.titan-embed-text-v2:0", "cohere.embed-english-v3", "custom.embed-v1" }

EmbedInit ==
    /\ args \in [modelName : EmbedModelNames, input : SeqsUpTo(Documents, MaxDocs)]
    /\ ret = EmbedPending(<< >>)
    /\ sent = << >>
    /\ replies = << >>
    /\ doc = 0
    /\ cpc = "called"

\* The text of the next document is empty: the loop goes on with the one after.
EmbedSkipsEmptyDocument ==
    /\ cpc = "called"
    /\ doc < Len(args.input)
    /\ InputText(args.input[doc + 1].content) = EmptyText
    /\ doc' = doc + 1
    /\ UNCHANGED <<args, ret, sent, replies, cpc>>
    /\ UNCHANGED <<streamVars, buildVars, pluginVars>>

\* The next document has text and the model name is of no embedding family the
\* switch knows.
EmbedUnsupported ==
    /\ cpc = "called"
    /\ doc < Len(args.input)
    /\ InputText(args.input[doc + 1].content) # EmptyText
    /\ EmbedFamily(args.modelName) = "unsupported"
    /\ ret' = EmbedErr("unsupported embedding model")
    /\ cpc' = "returned"
    /\ UNCHANGED <<args, sent, replies, doc>>
    /\ UNCHANGED <<streamVars, buildVars, pluginVars>>

\* The adapter of the family sends the text of the next document with
\* InvokeModel; Bedrock answers.
EmbedInvokeModel ==
    /\ cpc = "called"
    /\ doc < Len(args.input)
    /\ InputText(args.input[doc + 1].content) # EmptyText
    /\ EmbedFamily(args.modelName) # "unsupported"
    /\ sent' = Append(sent, InvokeModelInput(args.modelName,
                    IF EmbedFamily(args.modelName) = "titan"
                    THEN TitanEmbedBody(InputText(args.input[doc + 1].content))
                    ELSE CohereEmbedBody(InputText(args.input[doc + 1].content))))
    /\ \E reply \in EmbedReplies(args.modelName) : replies' = Append(replies, reply)
    /\ cpc' = "invoked"
    /\ UNCHANGED <<args, ret, doc>>
    /\ UNCHANGED <<streamVars, buildVars, pluginVars>>

\* What the adapter of the family makes of the last reply.
LastEmbedding ==
    IF EmbedFamily(args.modelName) = "titan"
    THEN getTitanEmbedding(replies[Len(replies)])
    ELSE getCohereEmbedding(replies[Len(replies)])

\* The adapter returns an error: embed returns it, wrapped.
EmbedAdapterFails ==
    /\ cpc = "invoked"
    /\ LastEmbedding.err # ""
    /\ ret' = EmbedErr("failed to generate embedding")
    /\ cpc' = "returned"
    /\ UNCHANGED <<args, sent, replies, doc>>
    /\ UNCHANGED <<streamVars, buildVars, pluginVars>>

\* The adapter returns a vector: embed appends it and goes on with the next
\* document.
EmbedAppends ==
    /\ cpc = "invoked"
    /\ LastEmbedding.err = ""
    /\ ret' = EmbedPending(Append(ret.embeddings, LastEmbedding.embedding))
    /\ doc' = doc + 1
    /\ cpc' = "called"
    /\ UNCHANGED <<args, sent, replies>>
    /\ UNCHANGED <<streamVars, buildVars, pluginVars>>

\* The loop is through all documents: embed returns the embeddings.
EmbedReturns ==
    /\ cpc = "called"
    /\ doc = Len(args.input)
    /\ ret' = EmbedOk(ret.embeddings)
    /\ cpc' = "returned"
    /\ UNCHANGED <<args, sent, replies, doc>>
    /\ UNCHANGED <<streamVars, buildVars, pluginVars>>

NextEmbed ==
    \/ EmbedSkipsEmptyDocument
    \/ EmbedUnsupported
    \/ EmbedInvokeModel
    \/ EmbedAdapterFails
    \/ EmbedAppends
    \/ EmbedReturns

----------------------------------------------------------------------------
\* normalizeSchema on the schemas callers hand in.

\* The members a schema map has or lacks, each with the values it takes.
TypeMembers == { << >> } \cup { [type |-> t] : t \in {"object", "string", "array"} }
PropertiesMembers ==
    { << >>, [properties |-> << >>],
      [properties |-> [location |-> [type |-> "string"]]] }
VersionMembers ==
    { << >>, "$schema" :> "http://json-schema.org/draft-07/schema#",
      "$schema" :> "https://json-schema.org/draft/2020-12/schema" }
OtherMembers == { << >>, [description |-> "where"] }

SchemaMaps ==
    { t @@ p @@ v @@ o : t \in TypeMembers, p \in PropertiesMembers,
                         v \in VersionMembers, o \in OtherMembers }

\* JSON text a caller may hand in, and the schema arguments of all kinds.
JsonTexts == { JsonObject(f) : f \in SchemaMaps } \cup { JsonNull, JsonArray, JsonInvalid }

SchemaArgs ==
    { MapSchema(f) : f \in SchemaMaps }
    \cup { StringSchema(j) : j \in JsonTexts }
    \cup { BytesSchema(j) : j \in JsonTexts }
    \cup { OtherSchema(TRUE, j) : j \in JsonTexts }
    \cup { OtherSchema(FALSE, JsonInvalid) }

SchemaInit ==
    /\ args \in SchemaArgs
    /\ ret = << >>
    /\ sent = << >>
    /\ replies = << >>
    /\ doc = 0
    /\ cpc = "called"

\* b.normalizeSchema(schema) returns.
NormalizeSchema ==
    /\ cpc = "called"
    /\ ret' = normalizeSchema(args)
    /\ cpc' = "returned"
    /\ UNCHANGED <<args, sent, replies, doc>>
    /\ UNCHANGED <<streamVars, buildVars, pluginVars>>

NextSchema == NormalizeSchema

----------------------------------------------------------------------------
\* convertValueWithSchema on decoded tool arguments.

MaxElems == 2       \* elements of an array value

ScalarValues ==
    { StrV(x) : x \in {"42", "1", "2.5", "-2.5", "1e19", "NaN", "Inf", "abc", "true"} }
    \cup { NumberV("1"), NumberV("2.5"), IntV(3), Float64V(25), Float64V(-25),
           Float64Class("1e19"), BoolV(TRUE) }

ElemValues == { StrV("1"), StrV("2.5"), StrV("abc"), StrV("1e19") }

MapValues ==
    { MapV([location |-> StrV("Paris"), days |-> StrV("42")]),
      MapV([days |-> StrV("abc"), extra |-> StrV("1")]),
      MapV([days |-> NumberV("1"),
            at |-> MapV([days |-> StrV("2.5"), more |-> ArrV(<<StrV("1")>>)])]),
      MapV(<< >>) }

Values == ScalarValues \cup { ArrV(xs) : xs \in SeqsUpTo(ElemValues, MaxElems) }
            \cup MapValues
            \cup { ArrV(<<MapV([days |-> StrV("1"), extra |-> StrV("2.5")])>>) }

Schemas ==
    { NoSchema, [description |-> "untyped"],
      [type |-> "integer"], [type |-> "number"], [type |-> "boolean"], [type |-> "string"],
      [type |-> "array"],
      [type |-> "array", items |-> [type |-> "number"]],
      [type |-> "array", items |-> [type |-> "integer"]],
      [type |-> "object"],
      [type |-> "array",
       items |-> [type |-> "object",
                  properties |-> [days |-> [type |-> "integer"],
                                  missing |-> [type |-> "number"]]]],
      [type |-> "object", properties |-> [days |-> NotAMap, missing |-> NotAMap]],
      [type |-> "number", properties |-> [days |-> [type |-> "integer"]]],
      [type |-> "object",
       properties |-> [days |-> [type |-> "integer"], location |-> [type |-> "string"],
                       missing |-> [type |-> "number"],
                       at |-> [type |-> "object",
                               properties |-> [days |-> [type |-> "number"],
                                               absent |-> [type |-> "boolean"]]]]] }

CoerceInit ==
    /\ args \in [value : Values, schema : Schemas, goarch : Builds]
    /\ ret = << >>
    /\ sent = << >>
    /\ replies = << >>
    /\ doc = 0
    /\ cpc = "called"

\* b.convertValueWithSchema(value, schema) returns, in a build for args.goarch.
ConvertValue ==
    /\ cpc = "called"
    /\ ret' = OnBuild(args.goarch, convertValueWithSchema(args.value, args.schema))
    /\ cpc' = "returned"
    /\ UNCHANGED <<args, sent, replies, doc>>
    /\ UNCHANGED <<streamVars, buildVars, pluginVars>>

NextCoerce == ConvertValue

----------------------------------------------------------------------------
\* buildConverseInput on a message of one text or media part, and
\* convertResponse on the content blocks it made.

MaxPieces == 3      \* comma-separated pieces of a media payload
MaxText == 2        \* characters of a text

MimeTypes == {"image/png", "image/jpeg", "image/jpg", "image/gif", "image/webp",
              "image/tiff"}
ContentTypes == MimeTypes \cup {""}

\* The payloads: pieces of strings.Split(content, ","), the first of them a
\* data URL header or not.
Pieces == { B64Seg("QUJD", TRUE), B64Seg("A", FALSE) }
Payloads ==
    { <<first>> \o rest :
        first \in Pieces \cup { HeaderSeg(mime) : mime \in ContentTypes },
        rest \in SeqsUpTo(Pieces, MaxPieces - 1) }

Texts == SeqsUpTo({"a", " "}, MaxText)

Parts == { MediaPart(contentType, segs) : contentType \in ContentTypes, segs \in Payloads }
            \cup { NewTextPart(t) : t \in Texts }

PartInit ==
    /\ args \in [role : {"user", "model", "tool"}, part : Parts]
    /\ ret = << >>
    /\ sent = << >>
    /\ replies = << >>
    /\ doc = 0
    /\ cpc = "called"

\* b.buildConverseInput on a request of the one message.
BuildPartMessage ==
    /\ cpc = "called"
    /\ sent' = buildConverseInput(ModelName,
                    [messages |-> <<[role |-> args.role, content |-> <<args.part>>]>>,
                     tools |-> << >>])
    /\ cpc' = "built"
    /\ UNCHANGED <<args, ret, replies, doc>>
    /\ UNCHANGED <<streamVars, buildVars, pluginVars>>

\* b.convertResponse on a Converse output whose message has the content blocks
\* of the wire message.
ConvertWireContent ==
    /\ cpc = "built"
    /\ Len(sent.messages) = 1
    /\ replies' = [content |-> sent.messages[1].content, stopReason |-> "end_turn",
                   usage |-> NoUsage]
    /\ ret' = convertResponse(replies', << >>)
    /\ cpc' = "returned"
    /\ UNCHANGED <<args, sent, doc>>
    /\ UNCHANGED <<streamVars, buildVars, pluginVars>>

NextPart ==
    \/ BuildPartMessage
    \/ ConvertWireContent

----------------------------------------------------------------------------
\* States of the areas a specification does not exercise.

BuildIdle ==
    /\ req = [messages |-> << >>, tools |-> << >>]
    /\ converseInput = NoConverseInput
    /\ bpc = "idle"

PluginIdle ==
    /\ mu = NoProc
    /\ initted = FALSE
    /\ client = "nil"
    /\ models = {}
    /\ embedders = {}
    /\ ppc = << >>
    /\ op = << >>
    /\ todo = << >>
    /\ outcome = << >>
    /\ inits = 0
    /\ cfg = [awsConfigSet |-> FALSE, defineCommonModels |-> FALSE,
              defineCommonEmbedders |-> FALSE]

CallIdle ==
    /\ args = << >>
    /\ ret = << >>
    /\ sent = << >>
    /\ replies = << >>
    /\ doc = 0
    /\ cpc = "idle"

----------------------------------------------------------------------------
\* Specifications.
InitStream == StreamInit /\ BuildIdle /\ PluginIdle /\ CallIdle
SpecStream == InitStream /\ [][NextStream]_vars

InitBuild == StreamIdle /\ BuildInit /\ PluginIdle /\ CallIdle
SpecBuild == InitBuild /\ [][NextBuild]_vars

InitPlugin == StreamIdle /\ BuildIdle /\ PluginInit /\ CallIdle
SpecPlugin == InitPlugin /\ [][NextPlugin]_vars

InitImage == StreamIdle /\ BuildIdle /\ PluginIdle /\ ImageInit
SpecImage == InitImage /\ [][NextImage]_vars

InitSchema == StreamIdle /\ BuildIdle /\ PluginIdle /\ SchemaInit
SpecSchema == InitSchema /\ [][NextSchema]_vars

InitCoerce == StreamIdle /\ BuildIdle /\ PluginIdle /\ CoerceInit
SpecCoerce == InitCoerce /\ [][NextCoerce]_vars

InitEmbed == StreamIdle /\ BuildIdle /\ PluginIdle /\ EmbedInit
SpecEmbed == InitEmbed /\ [][NextEmbed]_vars

InitPart == StreamIdle /\ BuildIdle /\ PluginIdle /\ PartInit
SpecPart == InitPart /\ [][NextPart]_vars

\* The plugin lifecycle with its scheduling: a goroutine inside Init,
\* DefineModel or DefineEmbedder goes on running, and one waiting in
\* b.mu.Lock() gets the mutex when it is free again and again (sync.Mutex
\* hands the lock to a starving waiter).  No goroutine has to make a call.
PluginFairness ==
    \A p \in Procs :
        /\ SF_vars(InitLock(p))
        /\ WF_vars(InitAlreadyCalled(p) \/ InitNotYetCalled(p))
        /\ WF_vars(InitLoadConfigFails(p) \/ InitSetsClient(p))
        /\ SF_vars(InitDefineCommon(p))
        /\ WF_vars(InitReturns(p))
        /\ SF_vars(DefineRegisters(p) \/ DefinePanics(p))
FairSpecPlugin == InitPlugin /\ [][NextPlugin]_vars /\ PluginFairness


----------------------------------------------------------------------------
\* Properties of generateTextStream.

\* The texts of the text deltas among the first n events, in order.
RECURSIVE DeltaTextsOf(_, _)
DeltaTextsOf(evs, n) ==
    IF n = 0 THEN << >>
    ELSE LET rest == DeltaTextsOf(evs, n - 1)
         IN IF IsTextDelta(evs[n]) THEN Append(rest, evs[n].text) ELSE rest

RECURSIVE Concat(_)
Concat(ts) == IF ts = << >> THEN EmptyText ELSE Head(ts) \o Concat(Tail(ts))

\* The events taken so far hold a message-stop event.
RECURSIVE StopSeen(_, _)
StopSeen(evs, n) ==
    IF n = 0 THEN FALSE
    ELSE evs[n].type = "messageStop" \/ StopSeen(evs, n - 1)

\* C1: the callback is invoked exactly once per text-delta event taken from the
\* stream, in arrival order, each call carrying only that delta's text: the
\* chunks handed to cb are, one for one and in order, the text deltas among the
\* events consumed; other events cause no call.
C1_CallbackPerTextDelta ==
    LET deltas == DeltaTextsOf(events, pos)
    IN /\ Len(calls) = Len(deltas)
       /\ \A i \in 1..Len(calls) :
            calls[i] = [index |-> 0, content |-> <<[kind |-> "text", text |-> deltas[i]]>>]

\* C1 witness: a run that returned a response after at least two calls with
\* different texts and an event that is not a text delta.
C1_Witness ==
    /\ spc = "returned" /\ result.ok
    /\ pos = Len(events)
    /\ Len(calls) >= 2 /\ calls[1] # calls[2]
    /\ \E i \in 1..Len(events) : ~IsTextDelta(events[i])

\* C2: when the event sequence ends without a message-stop event and no callback
\* call failed, generateTextStream returns a response with role model, whose
\* text is the in-order concatenation of the text deltas and whose finish
\* reason is stop; once the stream was acquired it ends with a response or with
\* the callback's error.
C2_ExhaustionSynthesizesStop ==
    (spc = "returned" /\ streamState # "none" /\ result.err # "callback error")
        => /\ result.ok
           /\ result.resp.set
           /\ result.resp.role = "model"
           /\ ~StopSeen(events, pos)
                => /\ result.resp.content =
                        <<[kind |-> "text", text |-> Concat(DeltaTextsOf(events, pos))]>>
                   /\ result.resp.finishReason = "stop"

\* C2 witness: all events taken, none a message-stop, two deltas or more.
C2_Witness ==
    /\ spc = "returned" /\ result.ok
    /\ pos = Len(events) /\ ~chanClosed
    /\ ~StopSeen(events, pos)
    /\ Len(calls) >= 2
    /\ result.resp.content[1].text # EmptyText

\* C3: once the callback has failed, no further callback call is made, and what
\* is returned is the callback error and no response.
C3_CallbackFailureAborts ==
    [][ /\ (result.err = "callback error" => calls' = calls)
        /\ (result'.err = "callback error"
              => /\ spc' = "returned"
                 /\ ~result'.ok
                 /\ result'.resp = NoResponse) ]_vars

\* C3 witness: the callback failed on the second delta while events remained.
C3_Witness ==
    /\ result.err = "callback error"
    /\ Len(calls) = 2
    /\ pos < Len(events)
    /\ fullText # EmptyText

\* C4: a stream acquired from ConverseStream is closed when generateTextStream
\* has returned, on every exit path; a call-level error acquires none.
C4_StreamClosedOnReturn ==
    /\ spc = "returned" => streamState # "open"
    /\ (spc = "returned" /\ result.err = "bedrock converse stream failed")
          => streamState = "none"
    /\ (spc = "returned" /\ result.err # "bedrock converse stream failed")
          => streamState = "closed"

\* C4 witness: the exit on a callback failure.
C4_Witness ==
    /\ spc = "returned"
    /\ result.err = "callback error"
    /\ streamState = "closed"

\* C5 (as claimed): once a message-stop event has been processed, no later event
\* causes a callback call or changes the accumulated text.
C5_StopIsTerminal ==
    [][ finalResponse.set => (calls' = calls /\ fullText' = fullText) ]_vars

\* C6 (as claimed): a stream that ended on a transport error is reported as an
\* error, never as a successful response.
C6_TransportErrorReported ==
    (spc = "returned" /\ streamErr) => ~result.ok

\* C7 (as claimed): a run whose context was cancelled while events were consumed
\* does not complete as a success.
C7_CancellationNotSuppressed ==
    (spc = "returned" /\ ctxCancelled) => ~result.ok

\* C8 (as claimed): for a model output streamed in full, the response of the
\* streaming path equals the response convertResponse gives for that output.
C8_StreamEqualsSync ==
    (/\ spc = "returned" /\ result.ok
     /\ output.has /\ pos = Len(events) /\ ~chanClosed /\ ~ctxCancelled)
        => result.resp = convertResponse(output, <<WeatherTool>>)

----------------------------------------------------------------------------
\* Properties of buildConverseInput.

\* The wire messages built for the same message list without tools.
WireWithoutTools == buildConverseInput(ModelName, [req EXCEPT !.tools = << >>]).messages

\* A part that has a wire block.
PartHasBlock(part) ==
    \/ part.kind \in {"text", "media"}
    \/ part.kind = "toolRequest" /\ "nilRequest" \notin DOMAIN part
    \/ part.kind = "toolResponse" /\ "nilResponse" \notin DOMAIN part

\* The messages of the request that are emitted as wire messages.
EmittedIdx ==
    { i \in 1..Len(req.messages) :
        /\ req.messages[i].role # "system"
        /\ \E j \in 1..Len(req.messages[i].content) :
                PartHasBlock(req.messages[i].content[j]) }

\* C9: with at least one tool, a last emitted wire message of role assistant is
\* removed and the wire messages before it stay as they are, in order; the same
\* message list without tools keeps its trailing assistant message.
C9_TrailingAssistantDropped ==
    bpc = "built" =>
        LET plain == WireWithoutTools
            n == Len(plain)
            wire == converseInput.messages
        IN /\ Len(plain) = Cardinality(EmittedIdx)
           /\ (EmittedIdx # {} /\ req.messages[CHOOSE i \in EmittedIdx :
                    \A j \in EmittedIdx : j <= i].role = "model")
                 => plain[n].role = "assistant"
           /\ IF Len(req.tools) > 0 /\ n > 0 /\ plain[n].role = "assistant"
              THEN /\ Len(wire) = n - 1
                   /\ \A i \in 1..(n - 1) : wire[i] = plain[i]
              ELSE wire = plain

\* C9 witness: a request with tools whose trailing model message was removed,
\* two wire messages staying.
C9_Witness ==
    /\ bpc = "built"
    /\ Len(req.tools) > 0
    /\ Len(req.messages) = 3
    /\ req.messages[3].role = "model"
    /\ Len(WireWithoutTools) = 3
    /\ Len(converseInput.messages) = 2
    /\ converseInput.messages[1].role # converseInput.messages[2].role

\* The k-th of the messages of the request that are emitted.
EmittedAt(k) == CHOOSE i \in EmittedIdx : Cardinality({j \in EmittedIdx : j <= i}) = k

\* C13: no wire message has an empty content block list.  The wire messages
\* are, in order, the user, model and tool messages with at least one part
\* that maps to a block, each with the blocks of its parts; a message with an
\* empty content or with parts of unmapped kinds only has no wire message.
C13_NoEmptyWireTurn ==
    bpc = "built" =>
        LET plain == WireWithoutTools
        IN /\ \A i \in 1..Len(converseInput.messages) :
                 converseInput.messages[i].content # << >>
           /\ \A i \in 1..Len(plain) : Len(plain[i].content) > 0
           /\ Len(plain) = Cardinality(EmittedIdx)
           /\ \A k \in 1..Len(plain) :
                 plain[k].content = ContentToBlocks(req.messages[EmittedAt(k)].content)

\* C13 witness: three messages of user, model or tool role; the middle one has
\* no part that maps to a block (one with empty content, one with a part of an
\* unmapped kind) and only the other two are on the wire.
C13_Witness ==
    /\ bpc = "built"
    /\ Len(req.messages) = 3
    /\ \A i \in 1..3 : req.messages[i].role # "system"
    /\ req.messages[2].content \in { << >>, <<DataPart>> }
    /\ EmittedIdx = {1, 3}
    /\ Len(req.tools) = 0
    /\ Len(converseInput.messages) = 2

\* C12: buildConverseInput returns a request for every input, and its tool
\* list has one entry per tool of the input, in the input's order, with the
\* tool's name and description; a tool whose schema convertJSONSchemaToBedrock-
\* Schema rejects is in the list with no input schema, every other tool with
\* its normalized schema.
C12_ToolsNeverOmitted ==
    bpc = "built" =>
        /\ converseInput.modelId = ModelName
        /\ Len(converseInput.toolConfig) = Len(req.tools)
        /\ \A i \in 1..Len(req.tools) :
              /\ converseInput.toolConfig[i].name = req.tools[i].name
              /\ converseInput.toolConfig[i].description = req.tools[i].description
              /\ converseInput.toolConfig[i].inputSchema.set
                    = ~convertJSONSchemaToBedrockSchema(InputSchemaOf(req.tools[i])).err

\* C12 witness: a request with two tools, the first with a schema that cannot
\* be converted (nil): both are in the list, the first without input schema.
C12_Witness ==
    /\ bpc = "built"
    /\ Len(req.tools) = 2
    /\ convertJSONSchemaToBedrockSchema(InputSchemaOf(req.tools[1])).err
    /\ Len(converseInput.toolConfig) = 2
    /\ converseInput.toolConfig[1].name = req.tools[1].name
    /\ ~converseInput.toolConfig[1].inputSchema.set
    /\ converseInput.toolConfig[2].inputSchema.set

----------------------------------------------------------------------------
\* Properties of the plugin lifecycle.

\* C10 (as claimed): a DefineModel or DefineEmbedder call on a plugin that is
\* not initialized is rejected at once: unless an Init call is inside its
\* locked section at that moment, the call can take the mutex and panic.
C10_DefineRejectedImmediately ==
    \A p \in Procs :
        (/\ ppc[p] = "define_lock"
         /\ ~initted
         /\ \A q \in Procs : ppc[q] \notin {"init_locked", "init_config"})
            => ENABLED DefinePanics(p)

\* The part of C10 about the registries: a registered model or embedder
\* callable implies that the plugin is initialized and has its client.
RegisteredImpliesInitialized ==
    (models # {} \/ embedders # {}) => (initted /\ client = "client")

----------------------------------------------------------------------------
\* C11: double initialization fails.  Under every interleaving of Init calls
\* on one plugin at most one call returns nil; a call that finds the plugin
\* initialized goes from the lock straight to the return of "bedrock: Init
\* already called", and no step changes the client or the flag once the flag
\* is set.
C11_DoubleInitFails ==
    [][ /\ inits' <= 1
        /\ initted => (initted' /\ client' = client)
        /\ \A p \in Procs :
              /\ (initted /\ ppc[p] = "init_lock" /\ ppc'[p] # ppc[p])
                    => ppc'[p] = "init_locked"
              /\ (initted /\ ppc[p] = "init_locked" /\ ppc'[p] # ppc[p])
                    => /\ ppc'[p] = "idle"
                       /\ outcome'[p] = "bedrock: Init already called"
                       /\ mu' = NoProc ]_vars

\* One Init has returned nil and a later one has returned the error.
C11_Witness ==
    /\ inits = 1
    /\ initted /\ client = "client"
    /\ \E p \in Procs : outcome[p] = "bedrock: Init already called" /\ ppc[p] = "idle"

----------------------------------------------------------------------------
\* Properties of generateImage and embed.

\* The images the adapter of a family reads from a parsed response.
ImagesRead(modelName, reply) ==
    IF ImageFamily(modelName) = "stable-diffusion"
    THEN [i \in 1..Len(reply.artifacts) |-> reply.artifacts[i].base64]
    ELSE reply.images

\* C14: an image adapter (Titan, Stable Diffusion, Nova Canvas) whose response
\* parses and holds no image returns the error "no images generated" and no
\* response; a response that generateImage returns has exactly one part, the
\* media part with the first image of the parsed response.
C14_NoImagesIsAnError ==
    cpc = "returned" =>
        /\ (/\ Len(replies) = 1
            /\ replies[1].parses
            /\ Len(ImagesRead(args.modelName, replies[1])) = 0)
              => (~ret.ok /\ ret.resp = NoResponse /\ ret.err = "no images generated")
        /\ ret.ok =>
              /\ Len(replies) = 1 /\ replies[1].parses
              /\ Len(ret.resp.content) = 1
              /\ ret.resp.content[1] =
                    MediaPart("image/png",
                              <<HeaderSeg("image/png"),
                                ImagesRead(args.modelName, replies[1])[1]>>)

\* C14 witness: a Stable Diffusion call whose response parses, has images but
\* no artifacts, and ended in the error.
C14_Witness ==
    /\ cpc = "returned"
    /\ ImageFamily(args.modelName) = "stable-diffusion"
    /\ Len(replies) = 1 /\ replies[1].parses
    /\ Len(replies[1].artifacts) = 0 /\ Len(replies[1].images) = 2
    /\ ret.err = "no images generated"

\* The embeddings the adapter of a family finds in a parsed response.
EmbeddingsRead(modelName, reply) ==
    IF EmbedFamily(modelName) = "titan"
    THEN (IF Len(reply.embedding) = 0 THEN << >> ELSE <<reply.embedding>>)
    ELSE reply.embeddings

\* C15 (as claimed): an embedding adapter (Titan, Cohere) whose response parses
\* and holds no embedding fails, and a successful return of embed has at least
\* one embedding and no empty vector.
C15_NoEmbeddingIsAnError ==
    (cpc = "returned" /\ ret.ok) =>
        /\ \A i \in 1..Len(replies) :
              replies[i].parses => Len(EmbeddingsRead(args.modelName, replies[i])) > 0
        /\ Len(ret.embeddings) > 0
        /\ \A i \in 1..Len(ret.embeddings) : Len(ret.embeddings[i]) > 0

\* C16 (as claimed): a call with a model name of no known family ends in the
\* unsupported-model error, and nothing was sent with InvokeModel.
C16_UnsupportedModelAborts ==
    (cpc = "returned" /\ EmbedFamily(args.modelName) = "unsupported") =>
        /\ ~ret.ok
        /\ ret.err = "unsupported embedding model"
        /\ sent = << >>

----------------------------------------------------------------------------
\* Properties of normalizeSchema.

\* The map a decodable schema argument stands for.
DecodedOf(schema) == IF schema.kind = "map" THEN schema.map ELSE schema.text.map

\* C17: every schema normalizeSchema returns has a type member, and a
\* properties member when its type is "object"; a decodable schema without a
\* type member is normalized to type "object" with a properties member.
C17_ObjectHasProperties ==
    (cpc = "returned" /\ ~ret.err) =>
        /\ "type" \in DOMAIN ret.map
        /\ ret.map.type = "object" => "properties" \in DOMAIN ret.map
        /\ "type" \notin DOMAIN DecodedOf(args)
              => (ret.map.type = "object" /\ "properties" \in DOMAIN ret.map)
        /\ ("type" \in DOMAIN DecodedOf(args) /\ DecodedOf(args).type = "object"
            /\ "properties" \notin DOMAIN DecodedOf(args))
              => ret.map.properties = << >>

\* C17 witness: a JSON string of an object of type "object" without
\* properties, normalized: the properties member is there, empty.
C17_Witness ==
    /\ cpc = "returned"
    /\ args.kind = "string"
    /\ args.text.json = "object"
    /\ "type" \in DOMAIN args.text.map
    /\ "properties" \notin DOMAIN args.text.map
    /\ ~ret.err
    /\ ret.map.type = "object"
    /\ ret.map.properties = << >>

\* C18: normalizeSchema is idempotent: normalizing the map it returned for a
\* decodable schema returns that map again.
C18_NormalizeIdempotent ==
    (cpc = "returned" /\ ~ret.err) => normalizeSchema(MapSchema(ret.map)) = ret

\* C18 witness: a schema without type, properties and $schema, given as the
\* JSON null or an empty object, normalized: the three members were added.
C18_Witness ==
    /\ cpc = "returned"
    /\ args.kind # "map"
    /\ DOMAIN DecodedOf(args) = {}
    /\ ~ret.err
    /\ DOMAIN ret.map = {"type", "properties", "$schema"}

----------------------------------------------------------------------------
\* Properties of convertValueWithSchema.

\* The number a decimal numeral denotes, as a float64 value of the model, and
\* the int64 that is this number truncated toward zero; ten to the nineteenth
\* is above the largest int64 and is kept by its numeral.
DecimalNumerals == {"42", "1", "2.5", "-2.5", "1e19"}
NumberOf(x) ==
    CASE x = "42"   -> Float64V(420)
      [] x = "1"    -> Float64V(10)
      [] x = "2.5"  -> Float64V(25)
      [] x = "-2.5" -> Float64V(-25)
      [] x = "1e19" -> Float64Class("1e19")
TruncatedNumberOf(x) ==
    IF x = "1e19" THEN [t |-> "int64", v |-> 0, exact |-> "10000000000000000000"]
    ELSE Int64V(TruncTenths(NumberOf(x).v))

\* C19 (as claimed): for a string under a schema of type integer or number,
\* the result is the number the string denotes when it parses (truncated
\* toward zero for integer), and the string itself when it does not parse.
C19_StringToNumber ==
    (/\ cpc = "returned"
     /\ args.value.t = "string"
     /\ args.schema # NoSchema
     /\ "type" \in DOMAIN args.schema)
        => /\ (args.schema.type = "integer" /\ args.value.v \in DecimalNumerals)
                => ret = TruncatedNumberOf(args.value.v)
           /\ (args.schema.type = "number" /\ args.value.v \in DecimalNumerals)
                => ret = NumberOf(args.value.v)
           /\ (args.schema.type \in {"integer", "number"} /\ ~ParseFloat(args.value.v).ok)
                => ret = args.value

\* C20: under a schema of type array with an items schema, an array is
\* converted to an array of the same length whose i-th element is the i-th
\* element of the input converted with the items schema; a value that is not
\* an array is returned as it is.
C20_ArrayElementwise ==
    (/\ cpc = "returned"
     /\ args.schema # NoSchema
     /\ "type" \in DOMAIN args.schema
     /\ args.schema.type = "array"
     /\ "items" \in DOMAIN args.schema)
        => IF args.value.t = "array"
           THEN /\ ret.t = "array"
                /\ Len(ret.v) = Len(args.value.v)
                /\ \A i \in 1..Len(args.value.v) :
                      ret.v[i] = OnBuild(args.goarch,
                                    convertValueWithSchema(args.value.v[i], args.schema.items))
           ELSE ret = args.value

\* C20 witness: ["1", "2.5"] under {type: array, items: {type: number}} has
\* become [1.0, 2.5].
C20_Witness ==
    /\ cpc = "returned"
    /\ args.value = ArrV(<<StrV("1"), StrV("2.5")>>)
    /\ args.schema = [type |-> "array", items |-> [type |-> "number"]]
    /\ ret = ArrV(<<Float64V(10), Float64V(25)>>)

----------------------------------------------------------------------------
\* Properties of convertMapWithSchema.

\* The property sub-schema of a key, when the schema declares one.
HasProperty(schema, key) ==
    /\ schema # NoSchema
    /\ schema # NotAMap
    /\ "properties" \in DOMAIN schema
    /\ key \in DOMAIN schema.properties

ItemsOf(schema) ==
    IF schema # NoSchema /\ schema # NotAMap /\ "items" \in DOMAIN schema
    THEN schema.items ELSE NoSchema

\* out has the keys of in, at every level of maps and arrays, and a key
\* without a property sub-schema has its value of in.
RECURSIVE Retyped(_, _, _)
Retyped(in, out, schema) ==
    CASE in.t = "map" ->
            /\ out.t = "map"
            /\ DOMAIN out.v = DOMAIN in.v
            /\ \A key \in DOMAIN in.v :
                  IF HasProperty(schema, key)
                  THEN Retyped(in.v[key], out.v[key], schema.properties[key])
                  ELSE out.v[key] = in.v[key]
      [] in.t = "array" ->
            /\ out.t = "array"
            /\ Len(out.v) = Len(in.v)
            /\ \A i \in 1..Len(in.v) : Retyped(in.v[i], out.v[i], ItemsOf(schema))
      [] OTHER -> TRUE

\* C21: the conversion of a map under any schema is a map with exactly the
\* keys of the input at every nesting level: no declared property the input
\* lacks is added, no key is removed, and a key without a property sub-schema
\* keeps its value.
C21_KeysPreserved ==
    cpc = "returned" => Retyped(args.value, ret, args.schema)

\* C21 witness: a map with a nested map, under a schema declaring properties
\* the input lacks at both levels, has come back with its keys and with days
\* retyped.
C21_Witness ==
    /\ cpc = "returned"
    /\ args.value = MapV([days |-> NumberV("1"),
                          at |-> MapV([days |-> StrV("2.5"),
                                       more |-> ArrV(<<StrV("1")>>)])])
    /\ HasProperty(args.schema, "missing")
    /\ HasProperty(args.schema, "at")
    /\ HasProperty(args.schema.properties.at, "absent")
    /\ ret = MapV([days |-> Int64V(1),
                   at |-> MapV([days |-> Float64V(25),
                                more |-> ArrV(<<StrV("1")>>)])])

----------------------------------------------------------------------------
\* Properties of the mapping of text and media parts.

\* The one content block of the wire message built from the part.
WireBlock == sent.messages[1].content[1]

MediaBuilt ==
    /\ cpc \in {"built", "returned"}
    /\ args.part.kind = "media"

\* C22: the image format is png for image/png, jpeg for image/jpeg and
\* image/jpg, gif for image/gif, webp for image/webp and png for every other
\* MIME type; the data URL data:image/jpeg;base64,<valid base64> on a part
\* with no MIME type of its own gives an image block of format jpeg whose
\* bytes are the decoded payload.
C22_ImageFormats ==
    MediaBuilt =>
        /\ Len(sent.messages) = 1
        /\ Len(sent.messages[1].content) = 1
        /\ WireBlock.kind = "image"
        /\ args.part.contentType # "" =>
              WireBlock.format =
                (CASE args.part.contentType = "image/png"  -> "png"
                   [] args.part.contentType \in {"image/jpeg", "image/jpg"} -> "jpeg"
                   [] args.part.contentType = "image/gif"  -> "gif"
                   [] args.part.contentType = "image/webp" -> "webp"
                   [] OTHER -> "png")
        /\ (/\ args.part.contentType = ""
            /\ args.part.text = <<HeaderSeg("image/jpeg"), B64Seg("QUJD", TRUE)>>)
              => WireBlock = ImageBlock("jpeg", [raw |-> FALSE, of |-> <<"QUJD">>])
        /\ (/\ args.part.contentType = ""
            /\ args.part.text = <<HeaderSeg("image/tiff"), B64Seg("QUJD", TRUE)>>)
              => WireBlock.format = "png"

\* C22 witness: the jpeg data URL has become a jpeg image block with the
\* decoded bytes.
C22_Witness ==
    /\ cpc = "built"
    /\ args.part = MediaPart("", <<HeaderSeg("image/jpeg"), B64Seg("QUJD", TRUE)>>)
    /\ WireBlock = ImageBlock("jpeg", [raw |-> FALSE, of |-> <<"QUJD">>])

\* C23: a text part mapped to a wire text block and that block mapped back
\* by convertResponse is a text part with the same text.
C23_TextRoundTrip ==
    (cpc = "returned" /\ args.part.kind = "text")
        => /\ sent.messages[1].content = <<TextBlock(args.part.text)>>
           /\ ret.content = <<NewTextPart(args.part.text)>>

\* C23 witness: a text with a leading space has made the round trip.
C23_Witness ==
    /\ cpc = "returned"
    /\ args.part = NewTextPart(<<" ", "a">>)
    /\ ret.content = <<NewTextPart(<<" ", "a">>)>>

\* C29 (as claimed): a payload starting with data: is split on its first comma
\* into header and payload whatever the number of commas; the MIME type comes
\* from the header only when the part has none; another payload is base64 as
\* a whole; when base64 does not decode, the bytes are those of the payload.
C29_SplitOnFirstComma ==
    MediaBuilt =>
        LET segs == args.part.text
            isDataURL == HasDataPrefix(segs) /\ Len(segs) >= 2
            payload == IF isDataURL THEN Tail(segs) ELSE segs
            mediaType == IF isDataURL /\ args.part.contentType = ""
                         THEN segs[1].mime ELSE args.part.contentType
            bytes == IF Len(payload) = 1 /\ payload[1].seg = "b64" /\ payload[1].valid
                     THEN [raw |-> FALSE, of |-> <<payload[1].tok>>]
                     ELSE [raw |-> TRUE, of |-> payload]
        IN WireBlock = ImageBlock(ImageFormatOf(mediaType), bytes)

----------------------------------------------------------------------------
\* Properties of the wire messages of buildConverseInput.

\* C25 (as claimed): for a request with at least one tool, whatever its
\* messages, the wire messages do not end with a message of role assistant.
C25_NeverEndsOnAssistant ==
    (bpc = "built" /\ Len(req.tools) > 0 /\ Len(converseInput.messages) > 0)
        => converseInput.messages[Len(converseInput.messages)].role # "assistant"

\* The content blocks of wire messages, and of the user, model and tool
\* messages of a request, in order.
RECURSIVE WireBlocks(_)
WireBlocks(wire) ==
    IF wire = << >> THEN << >> ELSE Head(wire).content \o WireBlocks(Tail(wire))

RECURSIVE RequestBlocks(_)
RequestBlocks(msgs) ==
    IF msgs = << >> THEN << >>
    ELSE (IF Head(msgs).role = "system" THEN << >> ELSE ContentToBlocks(Head(msgs).content))
         \o RequestBlocks(Tail(msgs))

\* The emitted messages that open a turn of their own when the content of a
\* tool message is folded into the current turn: those of role user or model,
\* and a tool message with no emitted message before it.
TurnIdx ==
    { i \in EmittedIdx :
        \/ req.messages[i].role # "tool"
        \/ \A j \in EmittedIdx : i <= j }

\* C27 (as claimed): a user message maps to role user and a model message to
\* role assistant, the content of a tool message is folded into the current
\* turn and is no wire message of its own, and the order of the messages and
\* of their content blocks is kept.
C27_RoleMapping ==
    bpc = "built" =>
        LET plain == WireWithoutTools
        IN /\ WireBlocks(plain) = RequestBlocks(req.messages)
           /\ Len(plain) = Cardinality(TurnIdx)
           /\ \A k \in 1..Len(plain) :
                 LET i == CHOOSE i \in TurnIdx : Cardinality({j \in TurnIdx : j <= i}) = k
                 IN plain[k].role =
                       (IF req.messages[i].role = "model" THEN "assistant" ELSE "user")

----------------------------------------------------------------------------
\* Properties of Init and the plugin mutex.

\* C24 (as claimed): every return from Init, the one after a failed load of
\* the AWS configuration included, leaves b.mu released: a goroutine that is
\* in no call does not hold the mutex.
C24_InitReleasesMutex ==
    \A p \in Procs : ppc[p] = "idle" => mu # p

\* The common models and embedders of the configuration are registered.
CommonRegistered ==
    /\ cfg.defineCommonModels =>
          \A i \in 1..Len(CommonModels) : Callable(CommonModels[i]) \in models
    /\ cfg.defineCommonEmbedders =>
          \A i \in 1..Len(CommonEmbedders) : Callable(CommonEmbedders[i]) \in embedders

\* C30 (as claimed): Init with DefineCommonModels or DefineCommonEmbedders
\* set terminates: it does not hold b.mu while it defines the common models
\* and embedders, a return of nil comes with all of them registered, and
\* every call of Init returns.
C30_InitTerminates ==
    /\ [](\A p \in Procs : ppc[p] = "init_common" => mu # p)
    /\ [][\A p \in Procs :
            (ppc[p] = "init_common" /\ ppc'[p] = "idle" /\ outcome'[p] = "nil")
                => CommonRegistered']_vars
    /\ \A p \in Procs :
          (/\ ppc[p] = "init_lock"
           /\ (cfg.defineCommonModels \/ cfg.defineCommonEmbedders))
             ~> (ppc[p] = "idle")

----------------------------------------------------------------------------
\* Properties of the loop of embed.

\* The InvokeModel input the adapter of the family sends for a document.
EmbedInputOf(document) ==
    InvokeModelInput(args.modelName,
        IF EmbedFamily(args.modelName) = "titan"
        THEN TitanEmbedBody(InputText(document.content))
        ELSE CohereEmbedBody(InputText(document.content)))

\* C26 (as claimed): a successful embed returns one embedding for each
\* document of the request, documents without text included, the i-th being
\* the vector Bedrock returned for the text of the i-th document.
C26_OneEmbeddingPerDocument ==
    (cpc = "returned" /\ ret.ok) =>
        /\ Len(ret.embeddings) = Len(args.input)
        /\ \A i \in 1..Len(ret.embeddings) :
              /\ i <= Len(args.input)
              /\ i <= Len(sent)
              /\ sent[i] = EmbedInputOf(args.input[i])
              /\ ret.embeddings[i] =
                    (IF EmbedFamily(args.modelName) = "titan"
                     THEN getTitanEmbedding(replies[i])
                     ELSE getCohereEmbedding(replies[i])).embedding

----------------------------------------------------------------------------
\* Properties of the request bodies of the image adapters.

\* The body of the one InvokeModel call, and the body the adapter sends when
\* the caller gives no config: the defaults.
SentBody == sent[1].body
DefaultBody == ImageBody(args.modelName, PromptOf(args), NilConfig)

\* The key is in the payload with the value: at the top level, or in
\* imageGenerationConfig.
KeyInPayload(body, key, value) ==
    \/ key \in DOMAIN body /\ body[key] = value
    \/ /\ "imageGenerationConfig" \in DOMAIN body
       /\ key \in DOMAIN body["imageGenerationConfig"].v
       /\ body["imageGenerationConfig"].v[key] = value

\* C28 (as claimed): every key of the config the caller supplies is in the
\* request body with the caller's value, and every default the caller does
\* not override keeps its value; for Titan and Nova Canvas the keys of the
\* caller's imageGenerationConfig are merged into imageGenerationConfig, for
\* Stable Diffusion the keys of the config are merged at the top level.
C28_ConfigOverrideWins ==
    (cpc \in {"invoked", "returned"} /\ Len(sent) = 1 /\ args.config.kind = "map") =>
        LET nested == ImageFamily(args.modelName) # "stable-diffusion"
            config == args.config.map
        IN /\ \A key \in DOMAIN config :
                 IF nested /\ key = "imageGenerationConfig"
                 THEN config[key].t = "map" =>
                        \A k \in DOMAIN config[key].v :
                            SentBody["imageGenerationConfig"].v[k] = config[key].v[k]
                 ELSE KeyInPayload(SentBody, key, config[key])
           /\ \A key \in DOMAIN DefaultBody :
                 IF nested /\ key = "imageGenerationConfig"
                 THEN \A k \in DOMAIN DefaultBody[key].v :
                        \/ /\ key \in DOMAIN config
                           /\ config[key].t = "map"
                           /\ k \in DOMAIN config[key].v
                        \/ SentBody[key].v[k] = DefaultBody[key].v[k]
                 ELSE \/ ~nested /\ key \in DOMAIN config
                      \/ SentBody[key] = DefaultBody[key]

====
